---- MODULE Spec2Model ----
(***************************************************************************)
(* Document lifecycle and settlement engine of the ERP back end.           *)
(*                                                                         *)
(* Part I   sequence allocation (routes/procurement.js, routes/receipts.js)*)
(*          under concurrent request handlers, specification SpecSeq.      *)
(* Part II  settlement of payments / receipts against invoices             *)
(*          (routes/apPayments.js, routes/receipts.js), specification Spec.*)
(*                                                                         *)
(* The database is MySQL/InnoDB reached through mysql2:                    *)
(*  - a statement run on a connection without an open transaction is       *)
(*    autocommitted; the row locks it takes end with the statement;        *)
(*  - inside a transaction a plain SELECT is a consistent, non-locking     *)
(*    read of committed data (plus the transaction's own writes), while    *)
(*    SELECT ... FOR UPDATE and UPDATE lock the row until COMMIT/ROLLBACK; *)
(*  - the assignments of a single-table UPDATE are evaluated left to       *)
(*    right, a later assignment seeing the already updated column.         *)
(* Money is counted in cents, so the 0.01 tolerance of the code is 1.      *)
(***************************************************************************)
EXTENDS Integers, Sequences, FiniteSets, TLC

\* ---------------------------------------------------------------- bounds
NumProcs == 2
MaxLines == 1
MaxRequests == 2

Procs == 1..NumProcs

\* ------------------------------------------------------- sequence tables
SeqNames == {"PO_REQUISITION_ID_SEQ", "PO_LINE_ID_SEQ", "PO_HEADER_ID_SEQ", "AR_RECEIPT_ID_SEQ"}

VARIABLES
  ar_sequences,   \* committed rows: name -> [current_value, increment_by]
  seqTx,          \* name -> [owner, value]: row lock holder (0 = none) and its uncommitted value
  po_headers,     \* rows of po_headers: [header_id, tx] (tx = 0 once committed)
  handler,        \* p -> route the request handler p is running, "idle" if none
  pc,             \* p -> position inside the handler
  inTx,           \* p -> the handler's connection has an open transaction
  seqName,        \* p -> the sequence name being allocated
  currentValue,   \* p -> local const currentValue / headerId / lineId
  linesLeft,      \* p -> lines of the request body still to insert
  httpStatus,     \* p -> status of the last response sent by a handler run as p (0 = none yet)
  requests,       \* number of requests accepted so far
  issued          \* values handed to handlers, in order: [name, value, tx]
                  \* (tx = the transaction still to commit it, 0 if none)

seqVars == <<ar_sequences, seqTx, po_headers, handler, pc, inTx, seqName,
             currentValue, linesLeft, httpStatus, requests, issued>>

\* the value of a row as connection p sees it with a locking (current) read
CurrentRead(p, name) ==
  IF seqTx[name].owner = p THEN seqTx[name].value
  ELSE ar_sequences[name].current_value

\* the row lock of name can be taken by p
LockFree(p, name) == seqTx[name].owner \in {0, p}

\* UPDATE <table> SET current_value = current_value + by WHERE sequence_name = name, run by p
UpdateIncrement(p, name, by) ==
  IF inTx[p]
  THEN /\ seqTx' = [seqTx EXCEPT ![name] = [owner |-> p, value |-> CurrentRead(p, name) + by]]
       /\ UNCHANGED ar_sequences
  ELSE /\ ar_sequences' = [ar_sequences EXCEPT ![name].current_value = @ + by]
       /\ UNCHANGED seqTx

\* the function returns v for sequence name to handler p
Issue(p, name, v) ==
  issued' = Append(issued, [name |-> name, value |-> v,
                            tx |-> IF inTx[p] THEN p ELSE 0])

\* connection.commit(): the transaction's writes become the committed rows
CommitTx(p) ==
  /\ ar_sequences' = [n \in SeqNames |->
        IF seqTx[n].owner = p
        THEN [ar_sequences[n] EXCEPT !.current_value = seqTx[n].value]
        ELSE ar_sequences[n]]
  /\ seqTx' = [n \in SeqNames |->
        IF seqTx[n].owner = p THEN [owner |-> 0, value |-> 0] ELSE seqTx[n]]
  /\ po_headers' = {IF r.tx = p THEN [r EXCEPT !.tx = 0] ELSE r : r \in po_headers}
  /\ issued' = [i \in 1..Len(issued) |->
        IF issued[i].tx = p THEN [issued[i] EXCEPT !.tx = 0] ELSE issued[i]]

\* connection.rollback(): the transaction's writes are undone; what it was
\* handed is never returned to a client
RollbackTx(p) ==
  /\ seqTx' = [n \in SeqNames |->
        IF seqTx[n].owner = p THEN [owner |-> 0, value |-> 0] ELSE seqTx[n]]
  /\ po_headers' = {r \in po_headers : r.tx # p}
  /\ issued' = SelectSeq(issued, LAMBDA e : e.tx # p)
  /\ UNCHANGED ar_sequences

Finish(p, status) ==
  /\ UNCHANGED requests
  /\ httpStatus' = [httpStatus EXCEPT ![p] = status]
  /\ handler' = [handler EXCEPT ![p] = "idle"]
  /\ pc' = [pc EXCEPT ![p] = "idle"]
  /\ inTx' = [inTx EXCEPT ![p] = FALSE]
  /\ seqName' = [seqName EXCEPT ![p] = "PO_LINE_ID_SEQ"]
  /\ currentValue' = [currentValue EXCEPT ![p] = 0]
  /\ linesLeft' = [linesLeft EXCEPT ![p] = 0]

\* ---------------------------------------------- request handlers start
\* a request arrives: the handler takes a pooled connection; lines = number
\* of lines in the body
StartHandler(p, route, lines, tx, firstPc, name) ==
  /\ handler' = [handler EXCEPT ![p] = route]
  /\ pc' = [pc EXCEPT ![p] = firstPc]
  /\ inTx' = [inTx EXCEPT ![p] = tx]
  /\ seqName' = [seqName EXCEPT ![p] = name]
  /\ linesLeft' = [linesLeft EXCEPT ![p] = lines]
  /\ requests' = requests + 1
  /\ UNCHANGED <<ar_sequences, seqTx, po_headers, currentValue, httpStatus, issued>>

\* router.post('/requisitions'): no beginTransaction, every statement autocommits
PostRequisitions(p) ==
  /\ handler[p] = "idle"
  /\ requests < MaxRequests
  /\ \E lines \in 0..MaxLines :
       StartHandler(p, "POST /requisitions", lines, FALSE, "gnsv_select", "PO_REQUISITION_ID_SEQ")

\* router.put('/requisitions/:id'): beginTransaction, then one line id per line
PutRequisitions(p) ==
  /\ handler[p] = "idle"
  /\ requests < MaxRequests
  /\ \E lines \in 1..MaxLines :
       StartHandler(p, "PUT /requisitions/:id", lines - 1, TRUE, "gnsv_select", "PO_LINE_ID_SEQ")

\* router.post('/purchase-orders'): beginTransaction, inline header id allocation
PostPurchaseOrders(p) ==
  /\ handler[p] = "idle"
  /\ requests < MaxRequests
  /\ \E lines \in 0..MaxLines :
       StartHandler(p, "POST /purchase-orders", lines, TRUE, "po_select", "PO_HEADER_ID_SEQ")

\* a receipts.js handler calls getNextSequenceValue('AR_RECEIPT_ID_SEQ')
CallARGetNextSequenceValue(p) ==
  /\ handler[p] = "idle"
  /\ requests < MaxRequests
  /\ StartHandler(p, "AR getNextSequenceValue", 0, FALSE, "ar_update", "AR_RECEIPT_ID_SEQ")

\* ------------------- procurement.js getNextSequenceValue(connection, name)
\* SELECT current_value ... FOR UPDATE
getNextSequenceValue_Select(p) ==
  /\ pc[p] = "gnsv_select"
  /\ LockFree(p, seqName[p])
  /\ currentValue' = [currentValue EXCEPT ![p] = CurrentRead(p, seqName[p])]
  /\ seqTx' = IF inTx[p]
              THEN [seqTx EXCEPT ![seqName[p]] =
                      [owner |-> p, value |-> CurrentRead(p, seqName[p])]]
              ELSE seqTx
  /\ pc' = [pc EXCEPT ![p] = "gnsv_update"]
  /\ UNCHANGED <<ar_sequences, po_headers, handler, inTx, seqName, linesLeft, httpStatus, issued, requests>>

\* UPDATE ... SET current_value = current_value + 1; return currentValue
getNextSequenceValue_Update(p) ==
  /\ pc[p] = "gnsv_update"
  /\ LockFree(p, seqName[p])
  /\ UpdateIncrement(p, seqName[p], 1)
  /\ Issue(p, seqName[p], currentValue[p])
  /\ IF linesLeft[p] > 0
     THEN /\ pc' = [pc EXCEPT ![p] = "gnsv_select"]
          /\ seqName' = [seqName EXCEPT ![p] = "PO_LINE_ID_SEQ"]
          /\ linesLeft' = [linesLeft EXCEPT ![p] = @ - 1]
     ELSE /\ pc' = [pc EXCEPT ![p] = "end"]
          /\ UNCHANGED <<seqName, linesLeft>>
  /\ UNCHANGED <<po_headers, handler, inTx, currentValue, httpStatus, requests>>

\* ------------------------- router.post('/purchase-orders') inline allocation
\* SELECT current_value FROM ar_sequences WHERE sequence_name = 'PO_HEADER_ID_SEQ'
\* (no FOR UPDATE: a consistent read of the committed row, no lock)
PO_SelectHeaderSeq(p) ==
  /\ pc[p] = "po_select"
  /\ currentValue' = [currentValue EXCEPT ![p] = ar_sequences["PO_HEADER_ID_SEQ"].current_value]
  /\ Issue(p, "PO_HEADER_ID_SEQ", ar_sequences["PO_HEADER_ID_SEQ"].current_value)
  /\ pc' = [pc EXCEPT ![p] = "po_update"]
  /\ UNCHANGED <<ar_sequences, seqTx, po_headers, handler, inTx, seqName, linesLeft, httpStatus, requests>>

\* UPDATE ar_sequences SET current_value = current_value + 1 (waits for the row lock)
PO_UpdateHeaderSeq(p) ==
  /\ pc[p] = "po_update"
  /\ LockFree(p, "PO_HEADER_ID_SEQ")
  /\ UpdateIncrement(p, "PO_HEADER_ID_SEQ", 1)
  /\ pc' = [pc EXCEPT ![p] = IF linesLeft[p] = 0 THEN "fail" ELSE "po_insert"]
  /\ UNCHANGED <<po_headers, handler, inTx, seqName, currentValue, linesLeft, httpStatus, requests, issued>>

\* INSERT INTO po_headers (header_id, ...): ER_DUP_ENTRY when the id exists
PO_InsertHeader(p) ==
  /\ pc[p] = "po_insert"
  /\ \A r \in po_headers : r.header_id = currentValue[p] => r.tx \in {0, p}
  /\ IF \E r \in po_headers : r.header_id = currentValue[p]
     THEN /\ pc' = [pc EXCEPT ![p] = "fail"]
          /\ UNCHANGED <<po_headers, seqName>>
     ELSE /\ po_headers' = po_headers \cup {[header_id |-> currentValue[p], tx |-> p]}
          /\ pc' = [pc EXCEPT ![p] = "po_line_select"]
          /\ seqName' = [seqName EXCEPT ![p] = "PO_LINE_ID_SEQ"]
  /\ UNCHANGED <<ar_sequences, seqTx, handler, inTx, currentValue, linesLeft, httpStatus, requests, issued>>

\* SELECT current_value ... WHERE sequence_name = 'PO_LINE_ID_SEQ' FOR UPDATE
PO_SelectLineSeq(p) ==
  /\ pc[p] = "po_line_select"
  /\ LockFree(p, "PO_LINE_ID_SEQ")
  /\ currentValue' = [currentValue EXCEPT ![p] = CurrentRead(p, "PO_LINE_ID_SEQ")]
  /\ seqTx' = [seqTx EXCEPT !["PO_LINE_ID_SEQ"] =
                  [owner |-> p, value |-> CurrentRead(p, "PO_LINE_ID_SEQ")]]
  /\ pc' = [pc EXCEPT ![p] = "po_line_update"]
  /\ UNCHANGED <<ar_sequences, po_headers, handler, inTx, seqName, linesLeft, httpStatus, issued, requests>>

\* UPDATE ar_sequences SET current_value = current_value + 1 for the line id
PO_UpdateLineSeq(p) ==
  /\ pc[p] = "po_line_update"
  /\ LockFree(p, "PO_LINE_ID_SEQ")
  /\ UpdateIncrement(p, "PO_LINE_ID_SEQ", 1)
  /\ Issue(p, "PO_LINE_ID_SEQ", currentValue[p])
  /\ linesLeft' = [linesLeft EXCEPT ![p] = @ - 1]
  /\ pc' = [pc EXCEPT ![p] = IF linesLeft[p] > 1 THEN "po_line_select" ELSE "end"]
  /\ UNCHANGED <<po_headers, handler, inTx, seqName, currentValue, httpStatus, requests>>

\* ------------------------------ receipts.js getNextSequenceValue(name)
\* pool.query('UPDATE ar_sequences SET current_value = current_value + increment_by ...')
AR_getNextSequenceValue_Update(p) ==
  /\ pc[p] = "ar_update"
  /\ seqTx[seqName[p]].owner = 0
  /\ ar_sequences' = [ar_sequences EXCEPT ![seqName[p]].current_value =
                         @ + ar_sequences[seqName[p]].increment_by]
  /\ pc' = [pc EXCEPT ![p] = "ar_select"]
  /\ UNCHANGED <<seqTx, po_headers, handler, inTx, seqName, currentValue, linesLeft, httpStatus, requests, issued>>

\* pool.query('SELECT current_value FROM ar_sequences ...'); return nextVal[0].current_value
AR_getNextSequenceValue_Select(p) ==
  /\ pc[p] = "ar_select"
  /\ currentValue' = [currentValue EXCEPT ![p] = ar_sequences[seqName[p]].current_value]
  /\ Issue(p, seqName[p], ar_sequences[seqName[p]].current_value)
  /\ pc' = [pc EXCEPT ![p] = "end"]
  /\ UNCHANGED <<ar_sequences, seqTx, po_headers, handler, inTx, seqName, linesLeft, httpStatus, requests>>

\* ------------------------------------------------------- handler exits
\* success path: connection.commit() when a transaction is open, then release
HandlerSucceeds(p) ==
  /\ pc[p] = "end"
  /\ IF inTx[p] THEN CommitTx(p)
     ELSE UNCHANGED <<ar_sequences, seqTx, po_headers, issued>>
  /\ Finish(p, 201)

\* a statement after the allocation throws inside a transaction (a duplicate
\* key, a missing reference, no lines): catch block, connection.rollback()
HandlerFails(p) ==
  /\ pc[p] \in {"fail", "end"}
  /\ inTx[p]
  /\ RollbackTx(p)
  /\ Finish(p, 500)

InitSeq ==
  /\ ar_sequences = [n \in SeqNames |-> [current_value |-> 1, increment_by |-> 1]]
  /\ seqTx = [n \in SeqNames |-> [owner |-> 0, value |-> 0]]
  /\ po_headers = {}
  /\ handler = [p \in Procs |-> "idle"]
  /\ pc = [p \in Procs |-> "idle"]
  /\ inTx = [p \in Procs |-> FALSE]
  /\ seqName = [p \in Procs |-> "PO_LINE_ID_SEQ"]
  /\ currentValue = [p \in Procs |-> 0]
  /\ linesLeft = [p \in Procs |-> 0]
  /\ httpStatus = [p \in Procs |-> 0]
  /\ requests = 0
  /\ issued = <<>>

NextSeq ==
  \E p \in Procs :
    \/ PostRequisitions(p)
    \/ PutRequisitions(p)
    \/ PostPurchaseOrders(p)
    \/ CallARGetNextSequenceValue(p)
    \/ getNextSequenceValue_Select(p)
    \/ getNextSequenceValue_Update(p)
    \/ PO_SelectHeaderSeq(p)
    \/ PO_UpdateHeaderSeq(p)
    \/ PO_InsertHeader(p)
    \/ PO_SelectLineSeq(p)
    \/ PO_UpdateLineSeq(p)
    \/ AR_getNextSequenceValue_Update(p)
    \/ AR_getNextSequenceValue_Select(p)
    \/ HandlerSucceeds(p)
    \/ HandlerFails(p)


\* the values issued for one sequence name, in the order they were returned
IssuedFor(name) == SelectSeq(issued, LAMBDA e : e.name = name)

StrictlyIncreasing(s) == \A i, j \in 1..Len(s) : i < j => s[i].value < s[j].value


(***************************************************************************)
(* Part II: settlement of payments (AP) and receipts (AR) against invoices *)
(***************************************************************************)
\* ---------------------------------------------------------------- bounds
NumInvoices == 1
InvoiceTotal == 3
MaxDocs == 1
MaxApps == 1
\* application lines of one request that creates a receipt
MaxReceiptApps == 2
MaxAppRows == 2
\* soft deletes and status patches of payments in one behaviour
MaxDeletes == 1

\* 0.01, the tolerance of the status rule, in cents
Tolerance == 1

InvoiceIds == 1..NumInvoices
\* invoice_id of a request line: 0 = absent, NumInvoices + 1 = no such invoice
RequestInvoiceIds == 0..(NumInvoices + 1)
\* applied_amount / application_amount of a request line
RequestAmounts == (-1)..(InvoiceTotal + 1)
\* payment_amount / total_amount of a request header: 0 = absent, otherwise
\* a payment or receipt smaller than one invoice
RequestDocAmounts == {0, InvoiceTotal - 1}
\* status of a request header: "" = absent
RequestStatuses == {"", "DRAFT", "PAID"}
InvoiceStatuses == {"DRAFT", "OPEN", "PAID", "CANCELLED", "VOID"}

VARIABLES
  ap_invoices,              \* invoice_id -> [total_amount, amount_paid, status]
  ap_payments,              \* payment_id -> [payment_amount, amount_applied, status]
  ap_payment_applications,  \* rows [payment_id, invoice_id, applied_amount, unapplied_amount, status]
  ar_invoices,              \* invoice_id -> [total_amount, amount_paid, status]
  ar_receipts,              \* receipt_id -> [total_amount, amount_applied, status]
  ar_receipt_applications,  \* rows [receipt_id, invoice_id, applied_amount, unapplied_amount, status]
  ledger,                   \* the ledger the requests of this behaviour address: "AP" or "AR"
                            \* (the two ledgers share no table)
  resp,                     \* HTTP status of the response to the latest request (0 = none yet)
  deletes,                  \* number of DELETE and status PATCH requests that reached their UPDATE
  answered,                 \* the request that response answers, [route, id], for the
                            \* handlers of PUT, DELETE, PATCH and the list GETs
  req                       \* the request being handled: route, document id and status,
                            \* application lines processed, totalApplied, tables at START TRANSACTION

setVars == <<ap_invoices, ap_payments, ap_payment_applications,
             ar_invoices, ar_receipts, ar_receipt_applications, ledger, resp, answered, deletes, req>>

apTables == <<ap_invoices, ap_payments, ap_payment_applications>>
arTables == <<ar_invoices, ar_receipts, ar_receipt_applications>>

NoRequest ==
  [route |-> "idle", id |-> 0, status |-> "", lines |-> <<>>, totalApplied |-> 0, saved |-> <<>>]

NoAnswer == [route |-> "", id |-> 0]

Respond(http) == resp' = http /\ answered' = NoAnswer

\* the response to a request of route on document id
RespondTo(route, id, http) == resp' = http /\ answered' = [route |-> route, id |-> id]

Quiescent == req.route = "idle"

Max0(x) == IF x > 0 THEN x ELSE 0

\* currentAmountDue = totalAmount - currentAmountPaid
AmountDue(inv) == inv.total_amount - inv.amount_paid

\* const newStatus = remainingAmountDue <= 0.01 ? 'PAID' : 'OPEN'
NewStatus(totalAmount, currentAmountPaid, appliedAmount) ==
  IF totalAmount - (currentAmountPaid + appliedAmount) <= Tolerance THEN "PAID" ELSE "OPEN"

\* UPDATE <invoices> SET amount_paid = amount_paid + ?,
\*        status = CASE WHEN (total_amount - (amount_paid + ?)) <= 0.01 THEN 'PAID' ELSE 'OPEN' END
\* MySQL assigns left to right: the CASE reads the amount_paid just assigned.
UpdateInvoiceSql(inv, appliedAmount) ==
  LET assigned == inv.amount_paid + appliedAmount
  IN  [inv EXCEPT !.amount_paid = assigned,
                  !.status = IF inv.total_amount - (assigned + appliedAmount) <= Tolerance
                             THEN "PAID" ELSE "OPEN"]

\* the same UPDATE followed by the read-back of receipts.js and its forced
\* UPDATE ... SET status = newStatus when the stored status differs
UpdateInvoiceVerified(inv, appliedAmount) ==
  LET newStatus == NewStatus(inv.total_amount, inv.amount_paid, appliedAmount)
      verified  == UpdateInvoiceSql(inv, appliedAmount)
  IN  IF verified.status # newStatus THEN [verified EXCEPT !.status = newStatus] ELSE verified

\* UPDATE ar_invoices SET amount_paid = amount_paid + ?, status = ? (status computed in JS)
UpdateInvoiceParam(inv, appliedAmount) ==
  [inv EXCEPT !.amount_paid = inv.amount_paid + appliedAmount,
              !.status = NewStatus(inv.total_amount, inv.amount_paid, appliedAmount)]

\* an application row as the handlers insert it
ApplicationRow(docId, invoiceId, appliedAmount, inv) ==
  [doc_id |-> docId, invoice_id |-> invoiceId, applied_amount |-> appliedAmount,
   unapplied_amount |-> Max0(AmountDue(inv) - appliedAmount), status |-> "ACTIVE"]

\* const paymentStatus = status === 'DRAFT' ? 'DRAFT' : 'PAID'
PaymentStatus(status) == IF status = "DRAFT" THEN "DRAFT" ELSE "PAID"

\* const receiptStatus = status === 'PAID' ? 'PAID' : 'DRAFT'
ReceiptStatus(status) == IF status = "PAID" THEN "PAID" ELSE "DRAFT"

\* no update is refused for the status of the payment or receipt
UpdateRefused_Never(currentStatus) == FALSE

\* if (currentStatus === 'PAID') return res.status(400): 'Cannot update paid
\* payment' / 'Cannot update paid receipt'
UpdateRefused(currentStatus) == currentStatus = "PAID"

\* the invoice updated whatever the status of the payment or receipt
UpdatesInvoices_Always(docStatus) == TRUE

\* if (paymentStatus === 'PAID') / if (receiptStatus === 'PAID'): the invoice is updated
UpdatesInvoices(docStatus) == docStatus = "PAID"

RECURSIVE SumApplied(_)
SumApplied(rows) ==
  IF rows = <<>> THEN 0 ELSE rows[1].applied_amount + SumApplied(Tail(rows))


\* ------------------------------------------- apPayments.js router.post('/')
\* validation, START TRANSACTION, payment id, header insert
AP_CreatePayment_Begin ==
  /\ UNCHANGED <<ledger, seqVars, deletes>>
  /\ Quiescent
  /\ ledger = "AP"
  /\ Len(ap_payments) < MaxDocs
  /\ \E status \in RequestStatuses, payment_amount \in RequestDocAmounts :
       IF payment_amount = 0
       THEN /\ Respond(400)
            /\ UNCHANGED <<apTables, arTables, req>>
       ELSE /\ ap_payments' = Append(ap_payments,
                 [payment_amount |-> payment_amount, amount_applied |-> 0,
                  status |-> PaymentStatus(status)])
            /\ req' = [route |-> "POST /api/ap/payments", id |-> Len(ap_payments) + 1,
                       status |-> PaymentStatus(status), lines |-> <<>>, totalApplied |-> 0,
                       saved |-> <<[invoices |-> ap_invoices, docs |-> ap_payments,
                                    apps |-> ap_payment_applications]>>]
            /\ Respond(0)
            /\ UNCHANGED <<ap_invoices, ap_payment_applications, arTables>>

\* catch (error) { await pool.query('ROLLBACK'); throw error; } -> 500.
\* START TRANSACTION and ROLLBACK go to whatever pooled connection is free, so
\* the statements already run are either undone or stay as they are.
AP_Throw ==
  /\ \/ /\ ap_invoices' = req.saved[1].invoices
        /\ ap_payments' = req.saved[1].docs
        /\ ap_payment_applications' = req.saved[1].apps
     \/ UNCHANGED apTables
  /\ req' = NoRequest
  /\ Respond(500)
  /\ UNCHANGED arTables

\* one iteration of for (const app of applications) in router.post('/')
AP_CreatePayment_Line ==
  /\ UNCHANGED <<ledger, seqVars, deletes>>
  /\ req.route = "POST /api/ap/payments"
  /\ Len(req.lines) < MaxApps
  /\ \E invoiceId \in RequestInvoiceIds, appliedAmount \in RequestAmounts :
       IF \/ invoiceId = 0
          \/ appliedAmount <= 0
          \/ invoiceId \notin InvoiceIds
       THEN AP_Throw
       ELSE LET inv == ap_invoices[invoiceId] IN
            /\ ap_payment_applications' = Append(ap_payment_applications,
                   ApplicationRow(req.id, invoiceId, appliedAmount, inv))
            /\ ap_invoices' = IF UpdatesInvoices(req.status)
                              THEN [ap_invoices EXCEPT ![invoiceId] = UpdateInvoiceSql(inv, appliedAmount)]
                              ELSE ap_invoices
            /\ req' = [req EXCEPT !.lines = Append(@, [invoice_id |-> invoiceId, applied_amount |-> appliedAmount]),
                                  !.totalApplied = @ + appliedAmount]
            /\ UNCHANGED <<ap_payments, arTables, resp, answered>>

\* after the loop: UPDATE ap_payments SET amount_applied = totalApplied (only
\* when applications were given), COMMIT, 201
AP_CreatePayment_End ==
  /\ UNCHANGED <<ledger, seqVars, deletes>>
  /\ req.route = "POST /api/ap/payments"
  /\ ap_payments' = IF Len(req.lines) > 0
                    THEN [ap_payments EXCEPT ![req.id].amount_applied = req.totalApplied]
                    ELSE ap_payments
  /\ req' = NoRequest
  /\ Respond(201)
  /\ UNCHANGED <<ap_invoices, ap_payment_applications, arTables>>

\* -------------------------------------------- apPayments.js router.put('/:id')
\* existence and PAID checks, then either the DRAFT -> PAID promotion (header
\* update, DELETE of the draft applications) or the header-only update
AP_UpdatePayment_Begin ==
  /\ UNCHANGED <<ledger, seqVars, deletes>>
  /\ Quiescent
  /\ ledger = "AP"
  /\ \E id \in 1..MaxDocs, status \in RequestStatuses,
        payment_amount \in RequestDocAmounts, hasApplications \in BOOLEAN :
       IF id > Len(ap_payments)
       THEN /\ RespondTo("PUT /api/ap/payments/:id", id, 404)
            /\ UNCHANGED <<apTables, arTables, req>>
       ELSE LET currentStatus == ap_payments[id].status
                targetStatus  == IF status = "" THEN currentStatus ELSE status
                \* payment_amount = COALESCE(?, payment_amount)
                header == [ap_payments[id] EXCEPT !.payment_amount =
                              IF payment_amount = 0 THEN @ ELSE payment_amount]
            IN
            IF UpdateRefused(currentStatus)
            THEN /\ RespondTo("PUT /api/ap/payments/:id", id, 400)
                 /\ UNCHANGED <<apTables, arTables, req>>
            ELSE IF currentStatus = "DRAFT" /\ targetStatus = "PAID" /\ hasApplications
            THEN /\ ap_payments' = [ap_payments EXCEPT ![id] = [header EXCEPT !.status = "PAID"]]
                 /\ ap_payment_applications' =
                       SelectSeq(ap_payment_applications, LAMBDA r : r.doc_id # id)
                 /\ req' = [route |-> "PUT /api/ap/payments/:id", id |-> id, status |-> "PAID",
                            lines |-> <<>>, totalApplied |-> 0,
                            saved |-> <<[invoices |-> ap_invoices, docs |-> ap_payments,
                                         apps |-> ap_payment_applications]>>]
                 /\ Respond(0)
                 /\ UNCHANGED <<ap_invoices, arTables>>
            ELSE /\ ap_payments' = [ap_payments EXCEPT ![id] = header]
                 /\ RespondTo("PUT /api/ap/payments/:id", id, 200)
                 /\ UNCHANGED <<ap_invoices, ap_payment_applications, arTables, req>>

\* one iteration of for (const app of applications) in the promotion
AP_UpdatePayment_Line ==
  /\ UNCHANGED <<ledger, seqVars, deletes>>
  /\ req.route = "PUT /api/ap/payments/:id"
  /\ Len(req.lines) < MaxApps
  /\ \E invoiceId \in RequestInvoiceIds, appliedAmount \in RequestAmounts :
       IF \/ invoiceId = 0
          \/ appliedAmount <= 0
          \/ invoiceId \notin InvoiceIds
       THEN AP_Throw
       ELSE LET inv == ap_invoices[invoiceId] IN
            /\ ap_payment_applications' = Append(ap_payment_applications,
                   ApplicationRow(req.id, invoiceId, appliedAmount, inv))
            /\ ap_invoices' = [ap_invoices EXCEPT ![invoiceId] = UpdateInvoiceSql(inv, appliedAmount)]
            /\ req' = [req EXCEPT !.lines = Append(@, [invoice_id |-> invoiceId, applied_amount |-> appliedAmount]),
                                  !.totalApplied = @ + appliedAmount]
            /\ UNCHANGED <<ap_payments, arTables, resp, answered>>

\* after the loop: UPDATE ap_payments SET amount_applied = totalApplied, COMMIT, 200
AP_UpdatePayment_End ==
  /\ UNCHANGED <<ledger, seqVars, deletes>>
  /\ req.route = "PUT /api/ap/payments/:id"
  /\ Len(req.lines) > 0
  /\ ap_payments' = [ap_payments EXCEPT ![req.id].amount_applied = req.totalApplied]
  /\ req' = NoRequest
  /\ Respond(200)
  /\ UNCHANGED <<ap_invoices, ap_payment_applications, arTables>>

\* ------------------------------ apPayments.js router.post('/:id/applications')
AP_AddApplication ==
  /\ UNCHANGED <<ledger, seqVars, deletes>>
  /\ Quiescent
  /\ ledger = "AP"
  /\ Len(ap_payment_applications) < MaxAppRows
  /\ \E id \in 1..MaxDocs, invoice_id \in RequestInvoiceIds, applied_amount \in RequestAmounts :
       IF id > Len(ap_payments) \/ invoice_id \notin InvoiceIds
       THEN /\ Respond(404)
            /\ UNCHANGED <<apTables, arTables, req>>
       ELSE LET payment == ap_payments[id]
                invoice == ap_invoices[invoice_id]
                remainingPaymentAmount == payment.payment_amount - payment.amount_applied
                remainingInvoiceAmount == invoice.total_amount - invoice.amount_paid
            IN
            IF applied_amount > remainingPaymentAmount \/ applied_amount > remainingInvoiceAmount
            THEN /\ Respond(400)
                 /\ UNCHANGED <<apTables, arTables, req>>
            ELSE /\ ap_payment_applications' = Append(ap_payment_applications,
                        ApplicationRow(id, invoice_id, applied_amount, invoice))
                 /\ ap_payments' = [ap_payments EXCEPT ![id].amount_applied = @ + applied_amount]
                 /\ ap_invoices' = [ap_invoices EXCEPT ![invoice_id] =
                                       UpdateInvoiceSql(invoice, applied_amount)]
                 /\ Respond(201)
                 /\ UNCHANGED <<arTables, req>>

\* ---------------------------------------------- receipts.js router.post('/')
\* START TRANSACTION on the handler's connection, validation, receipt insert
AR_CreateReceipt_Begin ==
  /\ UNCHANGED <<ledger, seqVars, deletes>>
  /\ Quiescent
  /\ ledger = "AR"
  /\ Len(ar_receipts) < MaxDocs
  /\ \E status \in RequestStatuses, total_amount \in RequestDocAmounts :
       IF total_amount = 0
       THEN /\ Respond(400)
            /\ UNCHANGED <<apTables, arTables, req>>
       ELSE /\ ar_receipts' = Append(ar_receipts,
                 [total_amount |-> total_amount, amount_applied |-> 0,
                  status |-> ReceiptStatus(status)])
            /\ req' = [route |-> "POST /api/receipts", id |-> Len(ar_receipts) + 1,
                       status |-> ReceiptStatus(status), lines |-> <<>>, totalApplied |-> 0,
                       saved |-> <<[invoices |-> ar_invoices, docs |-> ar_receipts,
                                    apps |-> ar_receipt_applications]>>]
            /\ Respond(0)
            /\ UNCHANGED <<ar_invoices, ar_receipt_applications, apTables>>

\* await connection.query('ROLLBACK'); connection.release(); return res.status(http)
AR_Rollback(http) ==
  /\ ar_invoices' = req.saved[1].invoices
  /\ ar_receipts' = req.saved[1].docs
  /\ ar_receipt_applications' = req.saved[1].apps
  /\ req' = NoRequest
  /\ Respond(http)
  /\ UNCHANGED apTables

\* await pool.query('ROLLBACK'); return res.status(400): the ROLLBACK runs on
\* another pooled connection and the handler's connection is released with its
\* transaction open; the next user of that connection commits it (START
\* TRANSACTION) or rolls it back
AR_ReleaseOpenTransaction ==
  /\ \/ /\ ar_invoices' = req.saved[1].invoices
        /\ ar_receipts' = req.saved[1].docs
        /\ ar_receipt_applications' = req.saved[1].apps
     \/ UNCHANGED arTables
  /\ req' = NoRequest
  /\ Respond(400)
  /\ UNCHANGED apTables

\* one iteration of for (const app of applications) in router.post('/')
AR_CreateReceipt_Line ==
  /\ UNCHANGED <<ledger, seqVars, deletes>>
  /\ req.route = "POST /api/receipts"
  /\ Len(req.lines) < MaxReceiptApps
  /\ \E invoiceId \in RequestInvoiceIds, appliedAmount \in RequestAmounts :
       IF invoiceId = 0
       THEN AR_ReleaseOpenTransaction
       ELSE IF invoiceId \notin InvoiceIds
       THEN AR_Rollback(400)
       ELSE LET invoice == ar_invoices[invoiceId]
                currentAmountDue == invoice.total_amount - invoice.amount_paid
            IN
            IF appliedAmount <= 0 \/ appliedAmount > currentAmountDue
            THEN AR_Rollback(400)
            ELSE /\ ar_receipt_applications' = Append(ar_receipt_applications,
                        ApplicationRow(req.id, invoiceId, appliedAmount, invoice))
                 /\ ar_invoices' = IF UpdatesInvoices(req.status)
                                   THEN [ar_invoices EXCEPT ![invoiceId] =
                                           UpdateInvoiceVerified(invoice, appliedAmount)]
                                   ELSE ar_invoices
                 /\ req' = [req EXCEPT !.lines = Append(@, [invoice_id |-> invoiceId, applied_amount |-> appliedAmount]),
                                       !.totalApplied = @ + appliedAmount]
                 /\ UNCHANGED <<ar_receipts, apTables, resp, answered>>

\* after the loop: UPDATE ar_receipts SET amount_applied = totalApplied (only
\* when applications were given), COMMIT, 201
AR_CreateReceipt_End ==
  /\ UNCHANGED <<ledger, seqVars, deletes>>
  /\ req.route = "POST /api/receipts"
  /\ ar_receipts' = IF Len(req.lines) > 0
                    THEN [ar_receipts EXCEPT ![req.id].amount_applied = req.totalApplied]
                    ELSE ar_receipts
  /\ req' = NoRequest
  /\ Respond(201)
  /\ UNCHANGED <<ar_invoices, ar_receipt_applications, apTables>>

\* ------------------------------------------- receipts.js router.put('/:id')
AR_UpdateReceipt_Begin ==
  /\ UNCHANGED <<ledger, seqVars, deletes>>
  /\ Quiescent
  /\ ledger = "AR"
  /\ \E id \in 1..MaxDocs, status \in RequestStatuses,
        total_amount \in RequestDocAmounts, hasApplications \in BOOLEAN :
       IF id > Len(ar_receipts)
       THEN /\ RespondTo("PUT /api/receipts/:id", id, 404)
            /\ UNCHANGED <<apTables, arTables, req>>
       ELSE LET currentStatus == ar_receipts[id].status
                targetStatus  == IF status = "" THEN currentStatus ELSE status
                \* total_amount = COALESCE(?, total_amount)
                header == [ar_receipts[id] EXCEPT !.total_amount =
                              IF total_amount = 0 THEN @ ELSE total_amount]
            IN
            IF UpdateRefused(currentStatus)
            THEN /\ RespondTo("PUT /api/receipts/:id", id, 400)
                 /\ UNCHANGED <<apTables, arTables, req>>
            ELSE IF currentStatus = "DRAFT" /\ targetStatus = "PAID" /\ hasApplications
            THEN /\ ar_receipts' = [ar_receipts EXCEPT ![id] = [header EXCEPT !.status = "PAID"]]
                 /\ ar_receipt_applications' =
                       SelectSeq(ar_receipt_applications, LAMBDA r : r.doc_id # id)
                 /\ req' = [route |-> "PUT /api/receipts/:id", id |-> id, status |-> "PAID",
                            lines |-> <<>>, totalApplied |-> 0,
                            saved |-> <<[invoices |-> ar_invoices, docs |-> ar_receipts,
                                         apps |-> ar_receipt_applications]>>]
                 /\ Respond(0)
                 /\ UNCHANGED <<ar_invoices, apTables>>
            ELSE /\ ar_receipts' = [ar_receipts EXCEPT ![id] = header]
                 /\ RespondTo("PUT /api/receipts/:id", id, 200)
                 /\ UNCHANGED <<ar_invoices, ar_receipt_applications, apTables, req>>

\* one iteration of for (const app of applications) in the promotion; a throw
\* reaches catch: ROLLBACK on the handler's connection, 500
AR_UpdateReceipt_Line ==
  /\ UNCHANGED <<ledger, seqVars, deletes>>
  /\ req.route = "PUT /api/receipts/:id"
  /\ Len(req.lines) < MaxApps
  /\ \E invoiceId \in RequestInvoiceIds, appliedAmount \in RequestAmounts :
       IF \/ invoiceId = 0
          \/ appliedAmount <= 0
          \/ invoiceId \notin InvoiceIds
       THEN AR_Rollback(500)
       ELSE LET invoice == ar_invoices[invoiceId]
                currentAmountDue == invoice.total_amount - invoice.amount_paid
            IN
            IF appliedAmount > currentAmountDue
            THEN AR_Rollback(500)
            ELSE /\ ar_receipt_applications' = Append(ar_receipt_applications,
                        ApplicationRow(req.id, invoiceId, appliedAmount, invoice))
                 /\ ar_invoices' = [ar_invoices EXCEPT ![invoiceId] =
                                       UpdateInvoiceParam(invoice, appliedAmount)]
                 /\ req' = [req EXCEPT !.lines = Append(@, [invoice_id |-> invoiceId, applied_amount |-> appliedAmount]),
                                       !.totalApplied = @ + appliedAmount]
                 /\ UNCHANGED <<ar_receipts, apTables, resp, answered>>

\* after the loop: UPDATE ar_receipts SET amount_applied = totalApplied, COMMIT, 200
AR_UpdateReceipt_End ==
  /\ UNCHANGED <<ledger, seqVars, deletes>>
  /\ req.route = "PUT /api/receipts/:id"
  /\ Len(req.lines) > 0
  /\ ar_receipts' = [ar_receipts EXCEPT ![req.id].amount_applied = req.totalApplied]
  /\ req' = NoRequest
  /\ Respond(200)
  /\ UNCHANGED <<ar_invoices, ar_receipt_applications, apTables>>

\* ------------------------------- receipts.js router.post('/:receiptId/apply')
AR_ApplyReceipt ==
  /\ UNCHANGED <<ledger, seqVars, deletes>>
  /\ Quiescent
  /\ ledger = "AR"
  /\ Len(ar_receipt_applications) < MaxAppRows
  /\ \E receiptId \in 1..MaxDocs, invoice_id \in RequestInvoiceIds, applied_amount \in RequestAmounts :
       IF receiptId > Len(ar_receipts) \/ invoice_id \notin InvoiceIds
       THEN /\ Respond(404)
            /\ UNCHANGED <<apTables, arTables, req>>
       ELSE LET receipt == ar_receipts[receiptId]
                invoice == ar_invoices[invoice_id]
                currentAmountDue == invoice.total_amount - invoice.amount_paid
                availableAmount == receipt.total_amount - receipt.amount_applied
            IN
            IF applied_amount > availableAmount \/ applied_amount > currentAmountDue
            THEN /\ Respond(400)
                 /\ UNCHANGED <<apTables, arTables, req>>
            ELSE /\ ar_receipt_applications' = Append(ar_receipt_applications,
                        ApplicationRow(receiptId, invoice_id, applied_amount, invoice))
                 /\ ar_receipts' = [ar_receipts EXCEPT ![receiptId].amount_applied = @ + applied_amount]
                 /\ ar_invoices' = [ar_invoices EXCEPT ![invoice_id] =
                                       UpdateInvoiceVerified(invoice, applied_amount)]
                 /\ Respond(200)
                 /\ UNCHANGED <<apTables, req>>

\* ------------------------------------- apPayments.js router.delete('/:id')
\* no application counted as ACTIVE
ActiveApplicationCount_Zero(rows, id) == 0

\* SELECT COUNT(*) as count FROM ap_payment_applications
\* WHERE payment_id = ? AND status = 'ACTIVE'
ActiveApplicationCount(rows, id) ==
  Len(SelectSeq(rows, LAMBDA r : r.doc_id = id /\ r.status = "ACTIVE"))

\* 400 when the count is positive; otherwise UPDATE ap_payments SET status =
\* 'DRAFT' WHERE payment_id = ? (no row when the id is unknown) and 200
AP_DeletePayment ==
  /\ UNCHANGED <<ledger, seqVars>>
  /\ Quiescent
  /\ ledger = "AP"
  /\ \E id \in 1..MaxDocs :
       IF ActiveApplicationCount(ap_payment_applications, id) > 0
       THEN /\ RespondTo("DELETE /api/ap/payments/:id", id, 400)
            /\ UNCHANGED <<apTables, arTables, req, deletes>>
       ELSE /\ deletes < MaxDeletes
            /\ deletes' = deletes + 1
            /\ ap_payments' = [i \in 1..Len(ap_payments) |->
                 IF i = id THEN [ap_payments[i] EXCEPT !.status = "DRAFT"] ELSE ap_payments[i]]
            /\ RespondTo("DELETE /api/ap/payments/:id", id, 200)
            /\ UNCHANGED <<ap_invoices, ap_payment_applications, arTables, req>>

\* --------------------------- apPayments.js router.patch('/:id/status')
\* 404 when the payment does not exist; UPDATE ap_payments SET status = ?
\* with the status of the body (an absent status is an undefined bind
\* parameter: the statement throws, 500); no other table is read or written
AP_PatchPaymentStatus ==
  /\ UNCHANGED <<ledger, seqVars>>
  /\ Quiescent
  /\ ledger = "AP"
  /\ \E id \in 1..MaxDocs, status \in RequestStatuses :
       IF id > Len(ap_payments)
       THEN /\ RespondTo("PATCH /api/ap/payments/:id/status", id, 404)
            /\ UNCHANGED <<apTables, arTables, req, deletes>>
       ELSE IF status = ""
       THEN /\ RespondTo("PATCH /api/ap/payments/:id/status", id, 500)
            /\ UNCHANGED <<apTables, arTables, req, deletes>>
       ELSE /\ deletes < MaxDeletes
            /\ deletes' = deletes + 1
            /\ ap_payments' = [ap_payments EXCEPT ![id].status = status]
            /\ RespondTo("PATCH /api/ap/payments/:id/status", id, 200)
            /\ UNCHANGED <<ap_invoices, ap_payment_applications, arTables, req>>

\* ---------------------------------------- apPayments.js router.get('/')
\* pa_stats.calculated_applied: SUM(applied_amount) of the ACTIVE applications
CalculatedApplied(rows, id) ==
  SumApplied(SelectSeq(rows, LAMBDA r : r.doc_id = id /\ r.status = "ACTIVE"))

\* if (Math.abs(calculatedApplied - currentApplied) > 0.01)
NeedsUpdate(calculatedApplied, currentApplied) ==
  \/ calculatedApplied - currentApplied > Tolerance
  \/ currentApplied - calculatedApplied > Tolerance

\* the list without filter: every payment is returned, and the batched UPDATE
\* sets amount_applied of the payments in updatesNeeded
AP_ListPayments ==
  /\ UNCHANGED <<ledger, seqVars, deletes>>
  /\ Quiescent
  /\ ledger = "AP"
  /\ ap_payments' = [i \in 1..Len(ap_payments) |->
       LET calculatedApplied == CalculatedApplied(ap_payment_applications, i) IN
       IF NeedsUpdate(calculatedApplied, ap_payments[i].amount_applied)
       THEN [ap_payments[i] EXCEPT !.amount_applied = calculatedApplied]
       ELSE ap_payments[i]]
  /\ RespondTo("GET /api/ap/payments", 0, 200)
  /\ UNCHANGED <<ap_invoices, ap_payment_applications, arTables, req>>

\* ------------------------------------------- receipts.js router.get('/')
\* SELECT r.*, c.customer_name, c.customer_number FROM ar_receipts r ...: the
\* rows are returned as stored
AR_ListReceipts ==
  /\ UNCHANGED <<ledger, seqVars, deletes>>
  /\ Quiescent
  /\ ledger = "AR"
  /\ RespondTo("GET /api/receipts", 0, 200)
  /\ UNCHANGED <<apTables, arTables, req>>

(***************************************************************************)
(* Part III: goods receipts against a purchase order, the purchase-order   *)
(* status rollup and the inventory of the received item                    *)
(* (routes/procurement.js), specification SpecGRN.                         *)
(*                                                                         *)
(* One purchase order and one inventory item. Quantities are whole units;  *)
(* box_quantity is counted in hundredths of a box (two decimals), so units *)
(* in stock, box_quantity x packet_quantity, are in hundredths of a unit.  *)
(* Requests are handled one after the other. A request served by another   *)
(* connection than the one carrying an open transaction waits for its row  *)
(* locks, so a request starts either on that connection or after the       *)
(* transaction has ended.                                                  *)
(***************************************************************************)
\* ---------------------------------------------------------------- bounds
NumPOLines == 1
OrderedQty == 2
MaxReceipts == 2
MaxBoxes == 3
MaxAgreements == 1

POLineIds == 1..NumPOLines
\* quantity of an AR invoice line
Quantities == 1..OrderedQty
\* the lines a goods-receipt request can carry for a purchase-order line: all
\* but one unit received and accepted, one unit received and accepted, the
\* whole order received and accepted, one unit received and rejected
RequestLine(received, accepted, rejected) ==
  [quantity_received |-> received, quantity_accepted |-> accepted,
   quantity_rejected |-> rejected]
RequestLines ==
  {RequestLine(OrderedQty - 1, OrderedQty - 1, 0), RequestLine(1, 1, 0),
   RequestLine(OrderedQty, OrderedQty, 0), RequestLine(1, 0, 1)}
\* the item's detail row before any receipt: a new item without packets per
\* box, or one box of two packets (box_quantity in hundredths)
InitialDetails ==
  {[box_quantity |-> 0, packet_quantity |-> 0], [box_quantity |-> 100, packet_quantity |-> 2]}
\* packet_quantity of the purchase-order line (0 = not set)
POPacketQuantities == {0, 2}
VARIABLES
  po_agreements,     \* number of rows of po_agreements
  po_status,         \* po_headers.status of the purchase order
  po_lines,          \* line_id -> [quantity, quantity_received, packet_quantity]
  po_receipts,       \* receipt_id -> [status]
  po_receipt_lines,  \* rows [receipt_id, line_id, quantity_received, quantity_accepted, quantity_rejected]
  inventory,         \* the item's active detail row: [box_quantity, packet_quantity]
  openTx,            \* TRUE while the pooled connection carries a transaction that was
                     \* begun and never committed or rolled back
  grn,               \* the request being handled: [route, id, step, inventoryFailed]
  stock              \* bookkeeping for the conservation law: the detail row before any
                     \* receipt, and whether a decrease has been cut short at zero

grnTables == <<po_agreements, po_status, po_lines, po_receipts, po_receipt_lines, inventory>>
grnVars == <<po_agreements, po_status, po_lines, po_receipts, po_receipt_lines, inventory,
             openTx, grn, stock>>

GRN_Idle == [route |-> "idle", id |-> 0, step |-> "", inventoryFailed |-> FALSE]

RECURSIVE SumSeq(_)
SumSeq(s) == IF s = <<>> THEN 0 ELSE Head(s) + SumSeq(Tail(s))

\* Math.floor of the boxes: whole boxes only
RoundDiv_WholeBoxes(num, den) == 100 * (num \div (100 * den))

\* Math.round(x) of the non-negative quotient num / den: halves go up
RoundDiv(num, den) == (2 * num + den) \div (2 * den)

\* currentBoxQty * packetsPerBox, in hundredths of a unit
TotalUnits(detail) == detail.box_quantity * detail.packet_quantity

\* --------------------------------------------- updatePOStatusFromReceipts
\* SELECT SUM(pl.quantity), SUM(COALESCE(prl.quantity_accepted, 0)),
\*        SUM(COALESCE(prl.quantity_received, 0))
\* FROM po_lines pl LEFT JOIN po_receipt_lines prl ON prl.line_id = pl.line_id:
\* a purchase-order line appears once per receipt line joined to it, once if none
RollupStats(lines, rows) ==
  LET joined(l) == SelectSeq(rows, LAMBDA r : r.line_id = l)
      copies(l) == IF Len(joined(l)) = 0 THEN 1 ELSE Len(joined(l))
      matched   == SelectSeq(rows, LAMBDA r : r.line_id \in DOMAIN lines)
  IN  [total_quantity |-> SumSeq([l \in DOMAIN lines |-> lines[l].quantity * copies(l)]),
       total_accepted |-> SumSeq([k \in DOMAIN matched |-> matched[k].quantity_accepted]),
       total_received |-> SumSeq([k \in DOMAIN matched |-> matched[k].quantity_received])]

\* the status the rollup writes, "" when it returns without writing
RollupNewStatus(stats) ==
  IF stats.total_quantity <= 0 THEN ""
  ELSE IF stats.total_accepted >= stats.total_quantity THEN "CLOSED"
  ELSE IF stats.total_received > 0 THEN "RECEIVED"
  ELSE ""

\* a rollup whose UPDATE has no status condition
updatePOStatusFromReceipts_Overwriting(status, lines, rows) ==
  LET newStatus == RollupNewStatus(RollupStats(lines, rows))
  IN  IF newStatus = "" THEN status ELSE newStatus

\* a rollup that moves the status one stage per run
updatePOStatusFromReceipts_Stepwise(status, lines, rows) ==
  LET newStatus == RollupNewStatus(RollupStats(lines, rows))
  IN  IF newStatus = "" \/ status = "CANCELLED" THEN status
      ELSE IF newStatus = "CLOSED" /\ status # "RECEIVED" THEN "RECEIVED"
      ELSE newStatus

\* UPDATE po_headers SET status = ? WHERE header_id = ? AND status <> 'CANCELLED'
updatePOStatusFromReceipts(status, lines, rows) ==
  LET newStatus == RollupNewStatus(RollupStats(lines, rows))
  IN  IF newStatus = "" \/ status = "CANCELLED" THEN status ELSE newStatus

\* bound: the largest quantity of a line given to a rollup on its own
MaxRollupQty == 2

\* the po_lines of one purchase order and the po_receipt_lines joined to them
RollupLines == {<<[quantity |-> q]>> : q \in 0..MaxRollupQty}
RollupRows ==
  {<<>>} \cup {<<[line_id |-> 1, quantity_accepted |-> a, quantity_received |-> r]>> :
                 a \in 0..MaxRollupQty, r \in 0..MaxRollupQty}

\* ------------------------------------------------- updateInventoryFromGRN
\* packetsPerBox as used for one line: the stored packet_quantity, or, when
\* that is <= 0, the purchase-order line's packet_quantity, or 1
PacketsPerBox(detail, poPacketQty) ==
  IF detail.packet_quantity > 0 THEN detail.packet_quantity
  ELSE IF poPacketQty > 0 THEN poPacketQty ELSE 1

\* one line of updateInventoryFromGRN on the detail row read at the start
InventoryAfterGRNLine(detail, acceptedQty, poPacketQty, isReversal) ==
  IF acceptedQty <= 0 THEN detail
  ELSE LET packetsPerBox == PacketsPerBox(detail, poPacketQty)
           totalUnits    == detail.box_quantity * packetsPerBox
           newTotalUnits == IF isReversal
                            THEN IF totalUnits - 100 * acceptedQty > 0
                                 THEN totalUnits - 100 * acceptedQty ELSE 0
                            ELSE totalUnits + 100 * acceptedQty
       IN  [box_quantity |-> RoundDiv(newTotalUnits, packetsPerBox),
            packet_quantity |-> packetsPerBox]

\* the batched UPDATEs: every line is computed from the detail row read before
\* the loop, and CASE id WHEN ? THEN ? takes the first WHEN of the item
updateInventoryFromGRN(detail, rows, isReversal) ==
  LET counted == SelectSeq(rows, LAMBDA r : r.quantity_accepted > 0)
  IN  IF counted = <<>> THEN detail
      ELSE InventoryAfterGRNLine(detail, counted[1].quantity_accepted,
                                 po_lines[counted[1].line_id].packet_quantity, isReversal)

\* a decrease that Math.max(0, ...) cut short
ClampedDecrease(detail, rows) ==
  \E k \in DOMAIN rows :
    /\ rows[k].quantity_accepted > 0
    /\ TotalUnits(detail) < 100 * rows[k].quantity_accepted

\* ------------------------------------------------ router.post('/receipts')
\* beginTransaction (which commits whatever transaction the connection still
\* carries), receipt header, receipt lines, po_lines.quantity_received.
\* lines.reduce throws when the body has no lines: catch, rollback, 500.
GRN_CreateReceipt ==
  /\ grn.route = "idle"
  /\ Len(po_receipts) < MaxReceipts
  /\ inventory.box_quantity <= 100 * MaxBoxes
  /\ \E hasLines \in BOOLEAN, line_id \in POLineIds, line \in RequestLines :
       IF ~hasLines
       THEN /\ grn' = GRN_Idle
            /\ openTx' = FALSE
            /\ UNCHANGED <<grnTables, stock>>
       ELSE /\ po_receipts' = Append(po_receipts, [status |-> "DRAFT"])
            /\ po_receipt_lines' = Append(po_receipt_lines,
                 [receipt_id |-> Len(po_receipts) + 1, line_id |-> line_id,
                  quantity_received |-> line.quantity_received,
                  quantity_accepted |-> line.quantity_accepted,
                  quantity_rejected |-> line.quantity_rejected])
            \* if (line.line_id && line.quantity_received): quantity_received + ?
            /\ po_lines' = [po_lines EXCEPT ![line_id].quantity_received = @ + line.quantity_received]
            /\ openTx' = TRUE
            /\ grn' = [route |-> "POST /receipts", id |-> Len(po_receipts) + 1,
                       step |-> "rollup", inventoryFailed |-> FALSE]
            /\ UNCHANGED <<po_agreements, po_status, inventory, stock>>

\* -------------------------------------------- router.put('/receipts/:id')
\* the rows of po_receipt_lines are kept in the order of their receipts
InsertReceiptLine(rows, row) ==
  SelectSeq(rows, LAMBDA r : r.receipt_id < row.receipt_id) \o <<row>>
    \o SelectSeq(rows, LAMBDA r : r.receipt_id > row.receipt_id)

\* the reversal of the old lines in router.put: whole boxes by Math.floor and
\* the remainder written to packet_quantity
ReverseOldLine(detail, oldAcceptedQty) ==
  IF oldAcceptedQty <= 0 \/ detail.packet_quantity <= 0 THEN detail
  ELSE LET totalUnits    == detail.box_quantity * detail.packet_quantity
           newTotalUnits == IF totalUnits - 100 * oldAcceptedQty > 0
                            THEN totalUnits - 100 * oldAcceptedQty ELSE 0
       IN  [box_quantity |-> 100 * (newTotalUnits \div (100 * detail.packet_quantity)),
            packet_quantity |-> (newTotalUnits % (100 * detail.packet_quantity)) \div 100]

\* every old line is computed from the detail row read before the loop; the
\* batched CASE id WHEN ? THEN ? takes the first WHEN of the item
ReverseOldLines(detail, oldLines) ==
  LET counted == SelectSeq(oldLines, LAMBDA r : r.quantity_accepted > 0)
  IN  IF counted = <<>> THEN detail ELSE ReverseOldLine(detail, counted[1].quantity_accepted)

\* beginTransaction, header update, reversal of the old lines, DELETE of the
\* old lines, INSERT of the new ones. 404 rolls back and releases; a body
\* without lines throws at lines.reduce, before any write, and the catch
\* answers 500 without rollback or release: that transaction has written
\* nothing and its connection never returns to the pool.
GRN_UpdateReceipt ==
  /\ grn.route = "idle"
  /\ inventory.box_quantity <= 100 * MaxBoxes
  /\ \E id \in 1..MaxReceipts, hasLines \in BOOLEAN, line_id \in POLineIds,
        line \in RequestLines :
       IF id > Len(po_receipts)
       THEN /\ grn' = GRN_Idle
            /\ openTx' = FALSE
            /\ UNCHANGED <<grnTables, stock>>
       ELSE IF ~hasLines
       THEN /\ grn' = GRN_Idle
            /\ openTx' = FALSE
            /\ UNCHANGED <<grnTables, stock>>
       ELSE LET oldLines == SelectSeq(po_receipt_lines, LAMBDA r : r.receipt_id = id) IN
            /\ po_receipts' = [po_receipts EXCEPT ![id].status = "DRAFT"]
            /\ inventory' = ReverseOldLines(inventory, oldLines)
            /\ stock' = [stock EXCEPT !.clamped = @ \/ ClampedDecrease(inventory, oldLines)]
            /\ po_receipt_lines' = InsertReceiptLine(
                 SelectSeq(po_receipt_lines, LAMBDA r : r.receipt_id # id),
                 [receipt_id |-> id, line_id |-> line_id,
                  quantity_received |-> line.quantity_received,
                  quantity_accepted |-> line.quantity_accepted,
                  quantity_rejected |-> line.quantity_rejected])
            /\ openTx' = TRUE
            /\ grn' = [route |-> "PUT /receipts/:id", id |-> id, step |-> "rollup",
                       inventoryFailed |-> FALSE]
            /\ UNCHANGED <<po_agreements, po_status, po_lines>>

\* await updatePOStatusFromReceipts(connection, header_id)
GRN_Rollup ==
  /\ grn.step = "rollup"
  /\ po_status' = updatePOStatusFromReceipts(po_status, po_lines, po_receipt_lines)
  /\ grn' = [grn EXCEPT !.step = "inventory"]
  /\ UNCHANGED <<po_agreements, po_lines, po_receipts, po_receipt_lines, inventory, openTx, stock>>

\* await updateInventoryFromGRN(connection, receiptId, false)
GRN_Inventory ==
  /\ grn.step = "inventory"
  /\ inventory' = updateInventoryFromGRN(inventory,
        SelectSeq(po_receipt_lines, LAMBDA r : r.receipt_id = grn.id), FALSE)
  /\ grn' = [grn EXCEPT !.step = "respond"]
  /\ UNCHANGED <<po_agreements, po_status, po_lines, po_receipts, po_receipt_lines, openTx, stock>>

\* updateInventoryFromGRN throws: its catch logs and rethrows, the handler's
\* inner try / catch logs and goes on. The statement that threw is the SELECT
\* (nothing written) or the box_quantity UPDATE (packet_quantity of a row that
\* had none is already written)
GRN_InventoryFails ==
  /\ grn.step = "inventory"
  /\ \E written \in {"nothing", "packet_quantity"} :
       LET counted == SelectSeq(po_receipt_lines,
                        LAMBDA r : r.receipt_id = grn.id /\ r.quantity_accepted > 0)
       IN  inventory' =
             IF written = "nothing" \/ counted = <<>> THEN inventory
             ELSE [inventory EXCEPT !.packet_quantity =
                     PacketsPerBox(inventory, po_lines[counted[1].line_id].packet_quantity)]
  /\ grn' = [grn EXCEPT !.step = "respond", !.inventoryFailed = TRUE]
  /\ UNCHANGED <<po_agreements, po_status, po_lines, po_receipts, po_receipt_lines, openTx, stock>>

\* logAuditTrail (which catches and logs its own errors, so the step is the
\* same when the audit INSERT fails), connection.release(), res.status(201) /
\* res.json: the transaction is still open on the released connection
GRN_Respond ==
  /\ grn.step = "respond"
  /\ grn' = GRN_Idle
  /\ UNCHANGED <<grnTables, openTx, stock>>

\* ----------------------------------------- router.delete('/receipts/:id')
\* no transaction of its own: the statements are autocommitted, or join the
\* transaction the connection still carries
GRN_CancelReceipt ==
  /\ grn.route = "idle"
  /\ \E id \in 1..MaxReceipts :
       IF id > Len(po_receipts)
       THEN /\ grn' = GRN_Idle
            /\ UNCHANGED <<grnTables, openTx, stock>>
       ELSE LET lines == SelectSeq(po_receipt_lines, LAMBDA r : r.receipt_id = id) IN
            /\ inventory' = updateInventoryFromGRN(inventory, lines, TRUE)
            /\ stock' = [stock EXCEPT !.clamped = @ \/ ClampedDecrease(inventory, lines)]
            /\ po_receipts' = [po_receipts EXCEPT ![id].status = "CANCELLED"]
            /\ grn' = GRN_Idle
            /\ UNCHANGED <<po_agreements, po_status, po_lines, po_receipt_lines, openTx>>

\* ------------------------------------------------ router.post('/agreements')
\* beginTransaction; 400 with rollback when supplier_id or agreement_number is
\* missing or the supplier is unknown; otherwise the header and the lines are
\* inserted, the connection is released and 201 is sent
PostAgreements ==
  /\ grn.route = "idle"
  /\ po_agreements < MaxAgreements
  /\ \E valid \in BOOLEAN :
       IF ~valid
       THEN /\ grn' = GRN_Idle
            /\ openTx' = FALSE
            /\ UNCHANGED <<grnTables, stock>>
       ELSE /\ po_agreements' = po_agreements + 1
            /\ openTx' = TRUE
            /\ grn' = GRN_Idle
            /\ UNCHANGED <<po_status, po_lines, po_receipts, po_receipt_lines, inventory, stock>>

\* ------------------------------ updateInventoryFromARInvoice (receipts.js)
\* one invoice line of quantitySold units: a sale takes the units out of
\* stock, not below zero; its reversal puts them back
updateInventoryFromARInvoice(detail, quantitySold, isReversal) ==
  IF quantitySold <= 0 THEN detail
  ELSE LET packetsPerBox == IF detail.packet_quantity <= 0 THEN 1 ELSE detail.packet_quantity
           totalUnits    == detail.box_quantity * packetsPerBox
           newTotalUnits == IF isReversal
                            THEN totalUnits + 100 * quantitySold
                            ELSE IF totalUnits - 100 * quantitySold > 0
                                 THEN totalUnits - 100 * quantitySold ELSE 0
       IN  [box_quantity |-> RoundDiv(newTotalUnits, packetsPerBox),
            packet_quantity |-> packetsPerBox]

\* ------------------------------------------------------- specification
POStatuses == {"APPROVED", "CANCELLED"}

GRN_Start ==
  /\ po_agreements = 0
  /\ po_status \in POStatuses
  /\ \E hint \in POPacketQuantities :
       po_lines = [l \in POLineIds |->
          [quantity |-> OrderedQty, quantity_received |-> 0, packet_quantity |-> hint]]
  /\ po_receipts = <<>>
  /\ po_receipt_lines = <<>>
  /\ inventory \in InitialDetails
  /\ stock = [initial |-> inventory, clamped |-> FALSE]
  /\ openTx = FALSE
  /\ grn = GRN_Idle

NextGRN ==
  \/ GRN_CreateReceipt
  \/ GRN_UpdateReceipt
  \/ GRN_Rollup
  \/ GRN_Inventory
  \/ GRN_InventoryFails
  \/ GRN_Respond
  \/ GRN_CancelReceipt
  \/ PostAgreements

(***************************************************************************)
(* Part IV: an inventory delta applied and then fully reversed, by         *)
(* updateInventoryFromGRN (routes/procurement.js) and by                   *)
(* updateInventoryFromARInvoice (routes/receipts.js), specification        *)
(* SpecRoundTrip. The detail row is the variable inventory of Part III.    *)
(***************************************************************************)
MaxPacketsPerBox == 3

\* packet_quantity of the item, established
PacketsPerBoxValues == 1..MaxPacketsPerBox
\* box_quantity before the delta, in hundredths: half boxes up to MaxBoxes
RoundTripBoxes == {50 * b : b \in 0..(2 * MaxBoxes)}

VARIABLES
  rt    \* the round trip in hand: [path, step, before, delta, clamped]

rtVars == <<rt>>

RT_Start == [path |-> "", step |-> "start", before |-> 0, delta |-> 0, clamped |-> FALSE]

\* Math.abs(x)
Abs(x) == IF x < 0 THEN -x ELSE x

\* updateInventoryFromGRN(connection, receiptId, false) for a receipt with one
\* line accepting delta units
RT_GRN_Apply ==
  /\ rt.step \in {"start", "reversed"}
  /\ inventory.box_quantity <= 100 * MaxBoxes
  /\ \E delta \in Quantities :
       /\ inventory' = InventoryAfterGRNLine(inventory, delta, 0, FALSE)
       /\ rt' = [path |-> "GRN", step |-> "applied", before |-> inventory.box_quantity,
                 delta |-> delta, clamped |-> FALSE]

\* updateInventoryFromGRN(connection, receiptId, true) for the same receipt
RT_GRN_Reverse ==
  /\ rt.step = "applied" /\ rt.path = "GRN"
  /\ inventory' = InventoryAfterGRNLine(inventory, rt.delta, 0, TRUE)
  /\ rt' = [rt EXCEPT !.step = "reversed",
                      !.clamped = TotalUnits(inventory) < 100 * rt.delta]

\* updateInventoryFromARInvoice(invoiceId, false) for an invoice with one line
\* selling delta units
RT_AR_Apply ==
  /\ rt.step \in {"start", "reversed"}
  /\ inventory.box_quantity <= 100 * MaxBoxes
  /\ \E delta \in Quantities :
       /\ inventory' = updateInventoryFromARInvoice(inventory, delta, FALSE)
       /\ rt' = [path |-> "AR", step |-> "applied", before |-> inventory.box_quantity,
                 delta |-> delta, clamped |-> TotalUnits(inventory) < 100 * delta]

\* updateInventoryFromARInvoice(invoiceId, true) for the same invoice
RT_AR_Reverse ==
  /\ rt.step = "applied" /\ rt.path = "AR"
  /\ inventory' = updateInventoryFromARInvoice(inventory, rt.delta, TRUE)
  /\ rt' = [rt EXCEPT !.step = "reversed"]

RT_Detail ==
  /\ \E b \in RoundTripBoxes, p \in PacketsPerBoxValues :
       inventory = [box_quantity |-> b, packet_quantity |-> p]
  /\ rt = RT_Start

NextRoundTrip ==
  \/ RT_GRN_Apply
  \/ RT_GRN_Reverse
  \/ RT_AR_Apply
  \/ RT_AR_Reverse

(***************************************************************************)
(* Part V: the header totals of a purchase order, written by               *)
(* router.post('/purchase-orders') and router.put('/purchase-orders/:id')  *)
(* (routes/procurement.js), specification SpecPOTotals. Submitted amounts  *)
(* are in thousandths, stored amounts in cents.                            *)
(***************************************************************************)
MaxPOLines == 2

\* line_amount, tax_amount and gst_amount of a submitted line, in thousandths
LineAmounts == {0, 5, 1000}
TaxAmounts == {0, 100}
GstAmounts == {0, 50}
SubmittedLines == [line_amount : LineAmounts, tax_amount : TaxAmounts, gst_amount : GstAmounts]
\* req.body.lines
SubmittedLineLists == UNION {[1..n -> SubmittedLines] : n \in 0..MaxPOLines}

VARIABLES
  po_header,   \* <<>> or <<[subtotal, tax_amount, total_amount]>>: the po_headers row, in cents
  po_request   \* the latest request: [route, http, lines]

potVars == <<po_header, po_request>>

\* Math.round(x * 100) / 100 of an amount in thousandths, in cents
RoundCents(thousandths) == RoundDiv(thousandths, 10)

\* Math.round((lines.reduce((sum, line) => sum + line.line_amount, 0)) * 100) / 100
Subtotal(lines) == RoundCents(SumSeq([k \in DOMAIN lines |-> lines[k].line_amount]))
TaxAmount(lines) == RoundCents(SumSeq([k \in DOMAIN lines |-> lines[k].tax_amount]))
GstAmount(lines) == RoundCents(SumSeq([k \in DOMAIN lines |-> lines[k].gst_amount]))

\* x || old
OrOld(x, old) == IF x = 0 THEN old ELSE x

\* router.post('/purchase-orders'): no lines throws, rollback, 500; otherwise
\* totals, INSERT INTO po_headers, lines, commit, 201
PostPurchaseOrderTotals ==
  /\ po_header = <<>>
  /\ \E lines \in SubmittedLineLists :
       IF lines = <<>>
       THEN /\ po_request' = [route |-> "POST /purchase-orders", http |-> 500, lines |-> lines]
            /\ UNCHANGED po_header
       ELSE LET subtotal    == Subtotal(lines)
                taxAmount   == TaxAmount(lines)
                gstAmount   == GstAmount(lines)
                totalAmount == subtotal + taxAmount + gstAmount
            IN  /\ po_header' = <<[subtotal |-> subtotal, tax_amount |-> taxAmount,
                                  total_amount |-> totalAmount]>>
                /\ po_request' = [route |-> "POST /purchase-orders", http |-> 201,
                                  lines |-> lines]

\* router.put('/purchase-orders/:id'): no lines is answered 400 after
\* rollback; otherwise totals, UPDATE po_headers with x || oldValues.x,
\* lines replaced, commit, 200
PutPurchaseOrderTotals ==
  /\ po_header # <<>>
  /\ \E lines \in SubmittedLineLists :
       IF lines = <<>>
       THEN /\ po_request' = [route |-> "PUT /purchase-orders/:id", http |-> 400, lines |-> lines]
            /\ UNCHANGED po_header
       ELSE LET oldValues   == po_header[1]
                subtotal    == Subtotal(lines)
                taxAmount   == TaxAmount(lines)
                totalAmount == subtotal + taxAmount
            IN  /\ po_header' = <<[subtotal |-> OrOld(subtotal, oldValues.subtotal),
                                  tax_amount |-> OrOld(taxAmount, oldValues.tax_amount),
                                  total_amount |-> OrOld(totalAmount, oldValues.total_amount)]>>
                /\ po_request' = [route |-> "PUT /purchase-orders/:id", http |-> 200,
                                  lines |-> lines]

PO_NoRequest == [route |-> "idle", http |-> 0, lines |-> <<>>]

PO_AtRest ==
  /\ po_header = <<>>
  /\ po_request = PO_NoRequest

NextPOTotals ==
  \/ PostPurchaseOrderTotals
  \/ PutPurchaseOrderTotals

(***************************************************************************)
(* Part VI: inventory items and their versioned detail rows, written by    *)
(* the inventory router.post('/') and router.put('/:id')                   *)
(* (routes/procurement.js), specification SpecItems. The handlers of Procs *)
(* run concurrently, each on its own connection and in its own             *)
(* transaction; the tables hold committed rows, a transaction's writes     *)
(* reach them at its commit.                                               *)
(***************************************************************************)
MaxItems == 1
MaxVersions == 3

ItemIds == 1..MaxItems
\* the compared detail fields of a request, taken as one value
DetailValues == {1, 2}

VARIABLES
  inventory_items,         \* number of rows of inventory_items, ids 1..inventory_items
  inventory_item_details,  \* rows [inventory_item_id, detail, version, is_active, effective_end_date]
  itemLock,                \* item id -> the process whose transaction holds the row's lock, or 0
  itemPc,                  \* process -> "idle", "update", "select", "write"
  itemReq                  \* process -> [id, detail, currentDetail]: req.params.id, the incoming
                           \* detail fields, the id of the detail row read (0 = none)

itemVars == <<inventory_items, inventory_item_details, itemLock, itemPc, itemReq>>

Item_NoRequest == [id |-> 0, detail |-> 0, currentDetail |-> 0]

\* a request of another transaction for the lock of an item's rows waits
ItemLockFree_Never(id) == TRUE

\* the lock of an item's rows is free
ItemLockFree(id) == itemLock[id] = 0

\* INSERT ... VALUES (..., version, CURDATE(), NULL, 1)
NewDetailRow(id, detail, version) ==
  [inventory_item_id |-> id, detail |-> detail, version |-> version,
   is_active |-> 1, effective_end_date |-> "NULL"]

\* ids of the rows WHERE inventory_item_id = ? AND is_active = 1
ActiveDetailIds(id) ==
  {k \in DOMAIN inventory_item_details :
     /\ inventory_item_details[k].inventory_item_id = id
     /\ inventory_item_details[k].is_active = 1}

\* inventory router.post('/'): 400 without item_code or item_name; otherwise
\* beginTransaction, INSERT INTO inventory_items, INSERT of the first detail
\* row, commit
Item_Create(p) ==
  /\ itemPc[p] = "idle"
  /\ inventory_items < MaxItems
  /\ \E valid \in BOOLEAN, detail \in DetailValues :
       IF ~valid
       THEN UNCHANGED <<inventory_items, inventory_item_details>>
       ELSE /\ inventory_items' = inventory_items + 1
            /\ inventory_item_details' =
                 Append(inventory_item_details, NewDetailRow(inventory_items + 1, detail, 1))
  /\ UNCHANGED <<itemLock, itemPc, itemReq>>

\* inventory router.put('/:id') is called: validation (400 without item_code
\* or item_name), beginTransaction
Item_Update_Begin(p) ==
  /\ itemPc[p] = "idle"
  /\ \E id \in ItemIds, detail \in DetailValues, valid \in BOOLEAN :
       IF ~valid
       THEN UNCHANGED <<itemPc, itemReq>>
       ELSE /\ itemPc' = [itemPc EXCEPT ![p] = "update"]
            /\ itemReq' = [itemReq EXCEPT ![p] = [id |-> id, detail |-> detail,
                                                  currentDetail |-> 0]]
  /\ UNCHANGED <<inventory_items, inventory_item_details, itemLock>>

\* UPDATE inventory_items SET ... WHERE id = ?, which waits for and then holds
\* the lock of the item's row; affectedRows === 0: rollback, 404
Item_Update_Header(p) ==
  /\ itemPc[p] = "update"
  /\ IF itemReq[p].id > inventory_items
     THEN /\ itemPc' = [itemPc EXCEPT ![p] = "idle"]
          /\ itemReq' = [itemReq EXCEPT ![p] = Item_NoRequest]
          /\ UNCHANGED itemLock
     ELSE /\ ItemLockFree(itemReq[p].id)
          /\ itemLock' = [itemLock EXCEPT ![itemReq[p].id] = p]
          /\ itemPc' = [itemPc EXCEPT ![p] = "select"]
          /\ UNCHANGED itemReq
  /\ UNCHANGED <<inventory_items, inventory_item_details>>

\* SELECT * FROM inventory_item_details WHERE inventory_item_id = ? AND
\* is_active = 1 LIMIT 1 FOR UPDATE: a locking read of the committed rows
Item_Update_Select(p) ==
  /\ itemPc[p] = "select"
  /\ \E k \in ActiveDetailIds(itemReq[p].id) \cup {0} :
       /\ (k = 0) = (ActiveDetailIds(itemReq[p].id) = {})
       /\ itemReq' = [itemReq EXCEPT ![p].currentDetail = k]
  /\ itemPc' = [itemPc EXCEPT ![p] = "write"]
  /\ UNCHANGED <<inventory_items, inventory_item_details, itemLock>>

\* detailChanged, nextVersion, the UPDATE that ends the current version, the
\* INSERT of the new one (or the UPDATE in place of the active rows), commit
Item_Update_Write(p) ==
  /\ itemPc[p] = "write"
  /\ LET id            == itemReq[p].id
         current       == itemReq[p].currentDetail
         read          == inventory_item_details[current]
         detailChanged == current = 0 \/ read.detail # itemReq[p].detail
         nextVersion   == IF current # 0 THEN read.version + 1 ELSE 1
         ended         == IF current # 0
                          THEN [inventory_item_details EXCEPT
                                  ![current].is_active = 0,
                                  ![current].effective_end_date = "CURDATE"]
                          ELSE inventory_item_details
     IN  /\ detailChanged => nextVersion <= MaxVersions
         /\ inventory_item_details' =
              IF detailChanged
              THEN Append(ended, NewDetailRow(id, itemReq[p].detail, nextVersion))
              ELSE [k \in DOMAIN inventory_item_details |->
                      IF k \in ActiveDetailIds(id)
                      THEN [inventory_item_details[k] EXCEPT !.detail = itemReq[p].detail]
                      ELSE inventory_item_details[k]]
         /\ itemLock' = [itemLock EXCEPT ![id] = IF @ = p THEN 0 ELSE @]
  /\ itemPc' = [itemPc EXCEPT ![p] = "idle"]
  /\ itemReq' = [itemReq EXCEPT ![p] = Item_NoRequest]
  /\ UNCHANGED inventory_items

\* catch (error): rollback, 500; finally: release
Item_Update_Rollback(p) ==
  /\ itemPc[p] \in {"update", "select", "write"}
  /\ itemLock' = [itemLock EXCEPT ![itemReq[p].id] = IF @ = p THEN 0 ELSE @]
  /\ itemPc' = [itemPc EXCEPT ![p] = "idle"]
  /\ itemReq' = [itemReq EXCEPT ![p] = Item_NoRequest]
  /\ UNCHANGED <<inventory_items, inventory_item_details>>

Items_AtRest ==
  /\ inventory_items = 0
  /\ inventory_item_details = <<>>
  /\ itemLock = [id \in ItemIds |-> 0]
  /\ itemPc = [p \in Procs |-> "idle"]
  /\ itemReq = [p \in Procs |-> Item_NoRequest]

NextItems ==
  \/ \E p \in Procs : Item_Create(p)
  \/ \E p \in Procs : Item_Update_Begin(p)
  \/ \E p \in Procs : Item_Update_Header(p)
  \/ \E p \in Procs : Item_Update_Select(p)
  \/ \E p \in Procs : Item_Update_Write(p)
  \/ \E p \in Procs : Item_Update_Rollback(p)

(***************************************************************************)
(* Part VII: the connection pool (config/database.js) and the request      *)
(* handlers of routes/procurement.js that check a connection out of it,    *)
(* specification SpecPool. The handlers of Procs run concurrently.         *)
(***************************************************************************)
\* connectionLimit of the pool; waitForConnections: true, queueLimit: 0
ConnectionLimit == 10

PoolRoutes == {"POST /agreements", "POST /requisitions", "PUT /receipts/:id"}
\* the routes with an early return that answers 400 or 404
PoolRoutesWithEarlyReturn == {"POST /agreements", "PUT /receipts/:id"}

VARIABLES
  pool_checkedOut,   \* number of connections checked out of the pool
  poolHandler        \* process -> the route it is handling, or "idle"

poolVars == <<pool_checkedOut, poolHandler>>

\* const connection = await pool.getConnection(): waits while the pool has no
\* free connection
Pool_GetConnection(p) ==
  /\ poolHandler[p] = "idle"
  /\ pool_checkedOut < ConnectionLimit
  /\ \E route \in PoolRoutes : poolHandler' = [poolHandler EXCEPT ![p] = route]
  /\ pool_checkedOut' = pool_checkedOut + 1

\* the end of the try block: connection.release() and the success response
Pool_Success(p) ==
  /\ poolHandler[p] \in PoolRoutes
  /\ pool_checkedOut' = pool_checkedOut - 1
  /\ poolHandler' = [poolHandler EXCEPT ![p] = "idle"]

\* validation failure or unknown id: connection.rollback(),
\* connection.release(), return res.status(400 / 404)
Pool_EarlyReturn(p) ==
  /\ poolHandler[p] \in PoolRoutesWithEarlyReturn
  /\ pool_checkedOut' = pool_checkedOut - 1
  /\ poolHandler' = [poolHandler EXCEPT ![p] = "idle"]

\* a statement throws: catch (error) { console.error(...); res.status(500) }
\* with no connection.release()
Pool_Exception(p) ==
  /\ poolHandler[p] \in PoolRoutes
  /\ poolHandler' = [poolHandler EXCEPT ![p] = "idle"]
  /\ UNCHANGED pool_checkedOut

Pool_AtRest ==
  /\ pool_checkedOut = 0
  /\ poolHandler = [p \in Procs |-> "idle"]

NextPool ==
  \/ \E p \in Procs : Pool_GetConnection(p)
  \/ \E p \in Procs : Pool_Success(p)
  \/ \E p \in Procs : Pool_EarlyReturn(p)
  \/ \E p \in Procs : Pool_Exception(p)

(***************************************************************************)
(* Part VIII: the handlers that change the status of a document            *)
(* (routes/procurement.js, routes/receipts.js, routes/apPayments.js),      *)
(* specification SpecStatus. A behaviour follows one document: a purchase  *)
(* order, a purchase agreement, an AR invoice or an AP payment.            *)
(***************************************************************************)
Null == "NULL"
\* req.user.id of the authenticated caller
UserId == 1

Entities == {"PURCHASE_ORDER", "AGREEMENT", "AR_INVOICE", "AP_PAYMENT"}

\* const validStatuses / validApprovalStatuses of the handlers; a payment is
\* DRAFT or PAID
ValidStatuses(entity) ==
  CASE entity = "PURCHASE_ORDER" ->
         {"DRAFT", "APPROVED", "RELEASED", "RECEIVED", "CLOSED", "CANCELLED"}
    [] entity = "AR_INVOICE" -> {"DRAFT", "OPEN", "PAID", "CANCELLED", "VOID"}
    [] entity = "AP_PAYMENT" -> {"DRAFT", "PAID"}
    [] OTHER -> {}
ValidApprovalStatuses == {"PENDING", "APPROVED", "REJECTED"}

\* status of a request body: "" = absent, a value of the set, the same value
\* in lower case with a blank, a value of no set
StatusInputs == {"", "CANCELLED", " cancelled", "PAID", "SHIPPED"}
ApprovalInputs == {"", "APPROVED", "REJECTED", " approved", "ESCALATED"}

\* String(value).toUpperCase().trim()
Normalized(value) ==
  CASE value = " cancelled" -> "CANCELLED"
    [] value = " approved" -> "APPROVED"
    [] OTHER -> value

VARIABLES
  document,     \* the row: [entity, status, approval_status, approved_by, approved_at]
  statusReq     \* the latest request and its response: [route, status, approval_status, http]

statusVars == <<document, statusReq>>

NoStatusRequest == [route |-> "", status |-> "", approval_status |-> "", http |-> 0]

StatusAnswer(route, status, approval_status, http) ==
  statusReq' = [route |-> route, status |-> status, approval_status |-> approval_status,
                http |-> http]

\* a || b of JavaScript where "" stands for an absent (undefined) field
OrElse(a, b) == IF a = "" THEN b ELSE a

\* ------------------------- router.patch('/purchase-orders/:id/status')
\* 400 when neither field is given. Otherwise connection = await
\* mysql.createConnection(dbConfig): the module imports neither mysql nor
\* dbConfig, the call throws ReferenceError, connection is still undefined in
\* the catch block and the handler answers 500 before it reads or writes
PO_PatchStatus ==
  /\ document.entity = "PURCHASE_ORDER"
  /\ \E status \in StatusInputs, approval_status \in ApprovalInputs :
       StatusAnswer("PATCH /purchase-orders/:id/status", status, approval_status,
                    IF status = "" /\ approval_status = "" THEN 400 ELSE 500)
  /\ UNCHANGED document

\* --------------------------------- router.put('/purchase-orders/:id')
\* status = status || oldValues.status, approval_status = approval_status ||
\* oldValues.approval_status; the UPDATE names neither approved_by nor
\* approved_at; commit, 200
PO_Put ==
  /\ document.entity = "PURCHASE_ORDER"
  /\ \E status \in StatusInputs, approval_status \in ApprovalInputs :
       /\ document' = [document EXCEPT
                         !.status = OrElse(status, document.status),
                         !.approval_status = OrElse(approval_status, document.approval_status)]
       /\ StatusAnswer("PUT /purchase-orders/:id", status, approval_status, 200)

\* --------------------------------------- router.put('/agreements/:id')
\* approvedBy = req.user.id and approvedAt = new Date() when approval_status
\* === 'APPROVED', null otherwise; status || null, approval_status || null
Agreement_Put ==
  /\ document.entity = "AGREEMENT"
  /\ \E status \in StatusInputs, approval_status \in ApprovalInputs :
       /\ document' = [document EXCEPT
                         !.status = OrElse(status, Null),
                         !.approval_status = OrElse(approval_status, Null),
                         !.approved_by = IF approval_status = "APPROVED" THEN UserId ELSE 0,
                         !.approved_at = IF approval_status = "APPROVED" THEN "NOW" ELSE Null]
       /\ StatusAnswer("PUT /agreements/:id", status, approval_status, 200)

\* ------------------ receipts.js router.patch('/:id/status') (AR invoices)
\* each given field is normalised and validated, 400 on the first invalid
\* one and when none is given; one UPDATE of the given fields
AR_Invoice_PatchStatus ==
  /\ document.entity = "AR_INVOICE"
  /\ \E status \in StatusInputs, approval_status \in ApprovalInputs :
       LET route == "PATCH /invoices/:id/status" IN
       IF status # "" /\ Normalized(status) \notin ValidStatuses("AR_INVOICE")
       THEN /\ StatusAnswer(route, status, approval_status, 400)
            /\ UNCHANGED document
       ELSE IF approval_status # "" /\ Normalized(approval_status) \notin ValidApprovalStatuses
       THEN /\ StatusAnswer(route, status, approval_status, 400)
            /\ UNCHANGED document
       ELSE IF status = "" /\ approval_status = ""
       THEN /\ StatusAnswer(route, status, approval_status, 400)
            /\ UNCHANGED document
       ELSE /\ document' = [document EXCEPT
                 !.status = IF status = "" THEN @ ELSE Normalized(status),
                 !.approval_status = IF approval_status = "" THEN @
                                     ELSE Normalized(approval_status)]
            /\ StatusAnswer(route, status, approval_status, 200)

\* ---------------------------- apPayments.js router.patch('/:id/status')
\* UPDATE ap_payments SET status = ? with the status of the body as it is; an
\* absent status is an undefined bind parameter: execute throws, 500
AP_Payment_PatchStatus ==
  /\ document.entity = "AP_PAYMENT"
  /\ \E status \in StatusInputs :
       IF status = ""
       THEN /\ StatusAnswer("PATCH /api/ap/payments/:id/status", status, "", 500)
            /\ UNCHANGED document
       ELSE /\ document' = [document EXCEPT !.status = status]
            /\ StatusAnswer("PATCH /api/ap/payments/:id/status", status, "", 200)

\* ------------------------------- router.delete('/purchase-orders/:id')
\* UPDATE po_headers SET status = "CANCELLED" WHERE header_id = ?, whatever
\* the status was
PO_Delete ==
  /\ document.entity = "PURCHASE_ORDER"
  /\ document' = [document EXCEPT !.status = "CANCELLED"]
  /\ StatusAnswer("DELETE /purchase-orders/:id", "", "", 200)

\* ------------- updatePOStatusFromReceipts as run by POST and PUT /receipts
\* on the purchase order's lines and the receipt lines stored by then
PO_ReceiptRollup ==
  /\ document.entity = "PURCHASE_ORDER"
  /\ \E lines \in RollupLines, rows \in RollupRows :
       document' = [document EXCEPT
                      !.status = updatePOStatusFromReceipts(document.status, lines, rows)]
  /\ StatusAnswer("POST /receipts", "", "", 201)

\* a new document of each kind: DRAFT, approval PENDING, no approver
Status_Start ==
  /\ \E entity \in Entities :
       document = [entity |-> entity, status |-> "DRAFT", approval_status |-> "PENDING",
                   approved_by |-> 0, approved_at |-> Null]
  /\ statusReq = NoStatusRequest

Status_AtRest ==
  /\ document = [entity |-> "PURCHASE_ORDER", status |-> "DRAFT",
                 approval_status |-> "PENDING", approved_by |-> 0, approved_at |-> Null]
  /\ statusReq = NoStatusRequest

NextStatus ==
  \/ PO_PatchStatus
  \/ PO_Put
  \/ Agreement_Put
  \/ AR_Invoice_PatchStatus
  \/ AP_Payment_PatchStatus
  \/ PO_Delete
  \/ PO_ReceiptRollup

(***************************************************************************)
(* Part IX: document numbers (routes/procurement.js): the helper           *)
(* generateDocumentNumber, used by POST /requisitions and POST /receipts,  *)
(* and the number selection of POST /purchase-orders, specification        *)
(* SpecDocNumbers. Handlers run concurrently, one per element of Procs.    *)
(* A string is a sequence of one-character strings.                        *)
(***************************************************************************)
\* bound: requests accepted in one behaviour
MaxCreates == 2

DocTypes == {"PURCHASE_ORDER", "REQUISITION", "RECEIPT"}

\* rows of po_document_numbers as installed: prefix, suffix and number_format
SeedConfig(type) ==
  CASE type = "PURCHASE_ORDER" -> [prefix |-> <<"P">>, suffix |-> <<>>, number_format |-> <<"0", "0">>]
    [] type = "REQUISITION" -> [prefix |-> <<"R">>, suffix |-> <<"Q">>, number_format |-> <<"0", "0", "0">>]
    [] type = "RECEIPT" -> [prefix |-> <<>>, suffix |-> <<>>, number_format |-> <<"0">>]

\* next_number of every row when a behaviour starts
StartNumbers == {9, 99}

\* req.body.po_number: absent, blank, a number, the same number between blanks
SuppliedNumbers == {<<>>, <<" ">>, <<"P", "0", "9">>, <<" ", "P", "0", "9", " ">>}

DecimalDigits == <<"0", "1", "2", "3", "4", "5", "6", "7", "8", "9">>

\* Number.prototype.toString() of a non-negative integer
RECURSIVE DecimalString(_)
DecimalString(n) ==
  IF n < 10 THEN <<DecimalDigits[n + 1]>>
  ELSE DecimalString(n \div 10) \o <<DecimalDigits[(n % 10) + 1]>>

PadStart_None(str, targetLength, padString) == str
\* String.prototype.padStart(targetLength, padString) with a one-character padString
PadStart(str, targetLength, padString) ==
  IF Len(str) >= targetLength THEN str
  ELSE [i \in 1..(targetLength - Len(str)) |-> padString] \o str

Trim_AsGiven(str) == str
\* String.prototype.trim()
Trim(str) ==
  LET nonBlank == {i \in 1..Len(str) : str[i] # " "}
      first == CHOOSE i \in nonBlank : \A j \in nonBlank : i <= j
      last == CHOOSE i \in nonBlank : \A j \in nonBlank : i >= j
  IN IF nonBlank = {} THEN <<>> ELSE SubSeq(str, first, last)

\* prefix + next_number.toString().padStart(number_format.length, '0') + suffix
FormatDocumentNumber(config) ==
  config.prefix \o PadStart(DecimalString(config.next_number), Len(config.number_format), "0") \o config.suffix

VARIABLES
  po_document_numbers, \* committed rows: document_type -> [prefix, suffix, next_number, number_format, is_active]
  docTx,               \* document_type -> [owner, value]: row lock holder (0 = none) and its uncommitted next_number
  id_sequences,        \* committed current_value of the id sequence of each document type
  idTx,                \* document_type -> [owner, value]: row lock on the id sequence and its uncommitted value
  documents,           \* rows of po_headers / po_requisitions / po_receipts:
                       \* [type, id, number, given, tx] (given = req.body.po_number, tx = 0 once committed)
  unique_number,       \* the document tables have a unique key on the number column
  dn,                  \* p -> the request handler run as p
  dnRequests,          \* requests accepted so far
  dnResult             \* p -> how the last request run as p ended

docNumVars == <<po_document_numbers, docTx, id_sequences, idTx, documents,
                unique_number, dn, dnRequests, dnResult>>

DN_Idle == [route |-> "idle", pc |-> "idle", type |-> "PURCHASE_ORDER", inTx |-> FALSE,
            po_number |-> <<>>, id |-> 0, number |-> <<>>, generated |-> FALSE,
            wrote |-> FALSE]

NoResult == [http |-> 0, numberExisted |-> FALSE, wrote |-> FALSE]

NoLock == [owner |-> 0, value |-> 0]

\* the latest version of next_number: the uncommitted one while a transaction holds the row
LatestNextNumber(type) ==
  IF docTx[type].owner # 0 THEN docTx[type].value
  ELSE po_document_numbers[type].next_number

\* po_number && po_number.trim() !== ''
NumberSupplied(po_number) == po_number # <<>> /\ Trim(po_number) # <<>>

\* a committed document of the type carries the number
NumberExists(type, number) ==
  \E r \in documents : r.type = type /\ r.number = number /\ r.tx = 0

\* the rows an INSERT of (type, id, number) collides with: the primary key,
\* and the number when the table has a unique key on it
Colliding(type, id, number) ==
  {r \in documents : r.type = type /\ (r.id = id \/ (unique_number /\ r.number = number))}

DN_Start(p, route, type, tx, firstPc, po_number) ==
  /\ dn[p].pc = "idle"
  /\ dnRequests < MaxCreates
  /\ dnRequests' = dnRequests + 1
  /\ dn' = [dn EXCEPT ![p] = [DN_Idle EXCEPT !.route = route, !.pc = firstPc, !.type = type,
                                             !.inTx = tx, !.po_number = po_number]]
  /\ dnResult' = [dnResult EXCEPT ![p] = NoResult]
  /\ UNCHANGED <<po_document_numbers, docTx, id_sequences, idTx, documents, unique_number>>

\* connection.commit(): the writes of the transaction of p become the committed rows
DN_Commit(p) ==
  /\ po_document_numbers' = [t \in DocTypes |->
        IF docTx[t].owner = p
        THEN [po_document_numbers[t] EXCEPT !.next_number = docTx[t].value]
        ELSE po_document_numbers[t]]
  /\ docTx' = [t \in DocTypes |-> IF docTx[t].owner = p THEN NoLock ELSE docTx[t]]
  /\ id_sequences' = [t \in DocTypes |->
        IF idTx[t].owner = p THEN idTx[t].value ELSE id_sequences[t]]
  /\ idTx' = [t \in DocTypes |-> IF idTx[t].owner = p THEN NoLock ELSE idTx[t]]
  /\ documents' = {IF r.tx = p THEN [r EXCEPT !.tx = 0] ELSE r : r \in documents}

\* connection.rollback(): the writes of the transaction of p are undone
DN_Rollback(p) ==
  /\ docTx' = [t \in DocTypes |-> IF docTx[t].owner = p THEN NoLock ELSE docTx[t]]
  /\ idTx' = [t \in DocTypes |-> IF idTx[t].owner = p THEN NoLock ELSE idTx[t]]
  /\ documents' = {r \in documents : r.tx # p}
  /\ UNCHANGED <<po_document_numbers, id_sequences>>

\* the handler answers and its connection goes back to rest; numberExisted:
\* it failed on a number that a committed document already carries; wrote:
\* the request leaves committed writes behind
DN_Finish(p, http, numberExisted, wrote) ==
  /\ dnResult' = [dnResult EXCEPT ![p] =
        [http |-> http, numberExisted |-> numberExisted, wrote |-> wrote]]
  /\ dn' = [dn EXCEPT ![p] = DN_Idle]
  /\ UNCHANGED <<unique_number, dnRequests>>

\* a statement throws: the catch block rolls back when the handler has one
\* (POST /requisitions has neither a transaction nor a rollback)
DN_Throw(p, http, numberExisted) ==
  /\ IF dn[p].inTx THEN DN_Rollback(p)
     ELSE UNCHANGED <<po_document_numbers, docTx, id_sequences, idTx, documents>>
  /\ DN_Finish(p, http, numberExisted, dn[p].wrote /\ ~dn[p].inTx)

\* ------------------------------------------------------ requests arrive
\* router.post('/requisitions'): no beginTransaction, every statement autocommits
Create_Requisition(p) ==
  DN_Start(p, "POST /requisitions", "REQUISITION", FALSE, "id_select", <<>>)

\* router.post('/receipts'): beginTransaction first, and no connection.commit()
\* anywhere in the handler
Create_Receipt(p) ==
  DN_Start(p, "POST /receipts", "RECEIPT", TRUE, "id_select", <<>>)

\* router.post('/purchase-orders'): beginTransaction first; po_number from the body
Create_PurchaseOrder(p) ==
  \E po_number \in SuppliedNumbers :
    DN_Start(p, "POST /purchase-orders", "PURCHASE_ORDER", TRUE, "po_id_select", po_number)

\* --------------------------- getNextSequenceValue(connection, sequenceName)
\* SELECT current_value ... FOR UPDATE: waits for the row lock, keeps it while in a transaction
NextId_Select(p) ==
  /\ dn[p].pc = "id_select"
  /\ idTx[dn[p].type].owner \in {0, p}
  /\ dn' = [dn EXCEPT ![p].pc = "id_update", ![p].id = id_sequences[dn[p].type]]
  /\ idTx' = IF dn[p].inTx
             THEN [idTx EXCEPT ![dn[p].type] = [owner |-> p, value |-> id_sequences[dn[p].type]]]
             ELSE idTx
  /\ UNCHANGED <<po_document_numbers, docTx, id_sequences, documents, unique_number, dnRequests, dnResult>>

\* UPDATE ... SET current_value = current_value + 1; return currentValue
NextId_Update(p) ==
  /\ dn[p].pc = "id_update"
  /\ idTx[dn[p].type].owner \in {0, p}
  /\ IF dn[p].inTx
     THEN /\ idTx' = [idTx EXCEPT ![dn[p].type] = [owner |-> p, value |-> idTx[dn[p].type].value + 1]]
          /\ UNCHANGED id_sequences
     ELSE /\ id_sequences' = [id_sequences EXCEPT ![dn[p].type] = @ + 1]
          /\ UNCHANGED idTx
  /\ dn' = [dn EXCEPT ![p].pc = "gen_select", ![p].wrote = TRUE]
  /\ UNCHANGED <<po_document_numbers, docTx, documents, unique_number, dnRequests, dnResult>>

\* ----------------------- generateDocumentNumber(connection, documentType)
\* SELECT prefix, suffix, next_number, number_format ... AND is_active = TRUE
\* (no FOR UPDATE: the committed row, no lock); throws when there is no row
generateDocumentNumber_Select(p) ==
  /\ dn[p].pc = "gen_select"
  /\ IF po_document_numbers[dn[p].type].is_active
     THEN /\ dn' = [dn EXCEPT ![p].pc = "gen_update", ![p].generated = TRUE,
                              ![p].number = FormatDocumentNumber(po_document_numbers[dn[p].type])]
          /\ UNCHANGED <<po_document_numbers, docTx, id_sequences, idTx, documents,
                         unique_number, dnRequests, dnResult>>
     ELSE DN_Throw(p, 500, FALSE)

\* UPDATE po_document_numbers SET next_number = next_number + 1 WHERE document_type = ?
UpdateNextNumber(p, type) ==
  /\ docTx[type].owner \in {0, p}
  /\ IF dn[p].inTx
     THEN /\ docTx' = [docTx EXCEPT ![type] = [owner |-> p, value |-> LatestNextNumber(type) + 1]]
          /\ UNCHANGED po_document_numbers
     ELSE /\ po_document_numbers' = [po_document_numbers EXCEPT ![type].next_number = @ + 1]
          /\ UNCHANGED docTx

generateDocumentNumber_Update(p) ==
  /\ dn[p].pc = "gen_update"
  /\ UpdateNextNumber(p, dn[p].type)
  /\ dn' = [dn EXCEPT ![p].pc = "insert", ![p].wrote = TRUE]
  /\ UNCHANGED <<id_sequences, idTx, documents, unique_number, dnRequests, dnResult>>

\* ------------------------------------------ router.post('/purchase-orders')
\* SELECT current_value FROM ar_sequences WHERE sequence_name = 'PO_HEADER_ID_SEQ'
\* (no FOR UPDATE)
PO_NextId_Select(p) ==
  /\ dn[p].pc = "po_id_select"
  /\ dn' = [dn EXCEPT ![p].pc = "po_id_update", ![p].id = id_sequences["PURCHASE_ORDER"]]
  /\ UNCHANGED <<po_document_numbers, docTx, id_sequences, idTx, documents,
                 unique_number, dnRequests, dnResult>>

\* UPDATE ar_sequences SET current_value = current_value + 1 (waits for the row lock)
PO_NextId_Update(p) ==
  /\ dn[p].pc = "po_id_update"
  /\ idTx["PURCHASE_ORDER"].owner \in {0, p}
  /\ idTx' = [idTx EXCEPT !["PURCHASE_ORDER"] =
                [owner |-> p, value |-> id_sequences["PURCHASE_ORDER"] + 1]]
  /\ dn' = [dn EXCEPT ![p].pc = "po_number", ![p].wrote = TRUE]
  /\ UNCHANGED <<po_document_numbers, docTx, id_sequences, documents, unique_number,
                 dnRequests, dnResult>>

\* poNumber = po_number.trim() when one is supplied; otherwise the active
\* config is read (no lock) and formatted, and its absence throws
PO_SelectNumber(p) ==
  /\ dn[p].pc = "po_number"
  /\ IF NumberSupplied(dn[p].po_number)
     THEN /\ dn' = [dn EXCEPT ![p].pc = "insert", ![p].number = Trim(dn[p].po_number)]
          /\ UNCHANGED <<po_document_numbers, docTx, id_sequences, idTx, documents,
                         unique_number, dnRequests, dnResult>>
     ELSE IF po_document_numbers["PURCHASE_ORDER"].is_active
     THEN /\ dn' = [dn EXCEPT ![p].pc = "insert", ![p].generated = TRUE,
                              ![p].number = FormatDocumentNumber(po_document_numbers["PURCHASE_ORDER"])]
          /\ UNCHANGED <<po_document_numbers, docTx, id_sequences, idTx, documents,
                         unique_number, dnRequests, dnResult>>
     ELSE DN_Throw(p, 500, FALSE)

\* if (!po_number || po_number.trim() === '') UPDATE po_document_numbers SET
\* next_number = next_number + 1 WHERE document_type = 'PURCHASE_ORDER'
PO_UpdateDocumentNumber(p) ==
  /\ dn[p].pc = "po_seq_update"
  /\ IF ~NumberSupplied(dn[p].po_number)
     THEN UpdateNextNumber(p, "PURCHASE_ORDER")
     ELSE UNCHANGED <<po_document_numbers, docTx>>
  /\ dn' = [dn EXCEPT ![p].pc = "commit"]
  /\ UNCHANGED <<id_sequences, idTx, documents, unique_number, dnRequests, dnResult>>

\* ------------------------------------------------- the document is written
\* INSERT INTO po_headers / po_receipts: waits for an uncommitted colliding
\* row, ER_DUP_ENTRY on a committed one. The parameters of INSERT INTO
\* po_requisitions end with req.user.id: POST /requisitions has no
\* authenticateToken, req.user is undefined and the expression throws
\* before the statement is sent
Insert_Document(p) ==
  /\ dn[p].pc = "insert"
  /\ IF dn[p].route = "POST /requisitions"
     THEN DN_Throw(p, 500, FALSE)
     ELSE /\ \A r \in Colliding(dn[p].type, dn[p].id, dn[p].number) : r.tx \in {0, p}
          /\ IF Colliding(dn[p].type, dn[p].id, dn[p].number) # {}
             THEN DN_Throw(p, IF dn[p].route = "POST /purchase-orders" THEN 400 ELSE 500,
                           NumberExists(dn[p].type, dn[p].number))
             ELSE /\ documents' = documents \cup
                       {[type |-> dn[p].type, id |-> dn[p].id, number |-> dn[p].number,
                         given |-> dn[p].po_number, tx |-> p]}
                  /\ UNCHANGED <<po_document_numbers, docTx, id_sequences, idTx>>
                  /\ dn' = [dn EXCEPT ![p].pc =
                              IF dn[p].route = "POST /purchase-orders" THEN "po_seq_update" ELSE "respond"]
                  /\ UNCHANGED <<unique_number, dnRequests, dnResult>>

\* the body has no lines (or another statement of the handler throws)
\* before the document is written
Create_Throws(p) ==
  /\ dn[p].pc = "insert"
  /\ DN_Throw(p, 500, FALSE)

\* router.post('/purchase-orders'): connection.commit(), the 201 answer,
\* connection.release()
Create_Commit(p) ==
  /\ dn[p].pc = "commit"
  /\ DN_Commit(p)
  /\ DN_Finish(p, 201, FALSE, TRUE)

\* router.post('/receipts'): the 201 answer and connection.release(), the
\* transaction still open on the pooled connection
Receipt_Respond(p) ==
  /\ dn[p].pc = "respond"
  /\ dn' = [dn EXCEPT ![p].pc = "released"]
  /\ dnResult' = [dnResult EXCEPT ![p] = [http |-> 201, numberExisted |-> FALSE, wrote |-> FALSE]]
  /\ UNCHANGED <<po_document_numbers, docTx, id_sequences, idTx, documents,
                 unique_number, dnRequests>>

\* the released connection is used again: the beginTransaction of its next
\* handler commits the transaction left open; a connection closed first
\* rolls it back
Connection_Reused(p) ==
  /\ dn[p].pc = "released"
  /\ \E committed \in BOOLEAN :
       IF committed THEN DN_Commit(p) ELSE DN_Rollback(p)
  /\ dn' = [dn EXCEPT ![p] = DN_Idle]
  /\ UNCHANGED <<unique_number, dnRequests, dnResult>>

\* installed tables: every counter at the same start, at most one config
\* switched off, no document yet
DocNum_Start ==
  /\ \E start \in StartNumbers, off \in DocTypes \cup {"none"} :
       po_document_numbers = [t \in DocTypes |->
          [prefix |-> SeedConfig(t).prefix, suffix |-> SeedConfig(t).suffix,
           next_number |-> start, number_format |-> SeedConfig(t).number_format,
           is_active |-> (t # off)]]
  /\ docTx = [t \in DocTypes |-> NoLock]
  /\ id_sequences = [t \in DocTypes |-> 1]
  /\ idTx = [t \in DocTypes |-> NoLock]
  /\ documents = {}
  /\ unique_number \in BOOLEAN
  /\ dn = [p \in Procs |-> DN_Idle]
  /\ dnRequests = 0
  /\ dnResult = [p \in Procs |-> NoResult]

DocNum_AtRest ==
  /\ po_document_numbers = [t \in DocTypes |->
        [prefix |-> SeedConfig(t).prefix, suffix |-> SeedConfig(t).suffix,
         next_number |-> 9, number_format |-> SeedConfig(t).number_format,
         is_active |-> TRUE]]
  /\ docTx = [t \in DocTypes |-> NoLock]
  /\ id_sequences = [t \in DocTypes |-> 1]
  /\ idTx = [t \in DocTypes |-> NoLock]
  /\ documents = {}
  /\ unique_number = TRUE
  /\ dn = [p \in Procs |-> DN_Idle]
  /\ dnRequests = 0
  /\ dnResult = [p \in Procs |-> NoResult]

NextDocNumbers ==
  \E p \in Procs :
    \/ Create_Requisition(p)
    \/ Create_Receipt(p)
    \/ Create_PurchaseOrder(p)
    \/ NextId_Select(p)
    \/ NextId_Update(p)
    \/ generateDocumentNumber_Select(p)
    \/ generateDocumentNumber_Update(p)
    \/ PO_NextId_Select(p)
    \/ PO_NextId_Update(p)
    \/ PO_SelectNumber(p)
    \/ PO_UpdateDocumentNumber(p)
    \/ Insert_Document(p)
    \/ Create_Throws(p)
    \/ Create_Commit(p)
    \/ Receipt_Respond(p)
    \/ Connection_Reused(p)

(***************************************************************************)
(* Part X: sequence allocation when the row of the sequence may be missing *)
(* (routes/procurement.js, routes/receipts.js), specification SpecAlloc.   *)
(* Each action is one allocation, run alone.                               *)
(***************************************************************************)
\* bound: largest current_value an allocation starts from
MaxSeqValue == 3

VARIABLES
  sequence_rows,  \* ar_sequences: name -> the rows with that sequence_name (<<>> or one row)
  allocation      \* the last allocation: [path, name, outcome, value]

allocVars == <<sequence_rows, allocation>>

NoAllocation == [path |-> "", name |-> "PO_LINE_ID_SEQ", outcome |-> "", value |-> 0]

\* the allocation returned v
Returned(path, name, v) ==
  allocation' = [path |-> path, name |-> name, outcome |-> "returned", value |-> v]

\* the allocation threw: "SequenceNotFound" for throw new Error('Sequence ... not found'),
\* "TypeError" for reading current_value of undefined
Threw(path, name, error) ==
  allocation' = [path |-> path, name |-> name, outcome |-> error, value |-> 0]

\* UPDATE ar_sequences SET current_value = current_value + by WHERE sequence_name = name
\* (no row matches an unregistered name)
IncrementRows(name, by) ==
  [sequence_rows EXCEPT ![name] =
     [i \in 1..Len(@) |-> [@[i] EXCEPT !.current_value = @ + by]]]

\* procurement.js getNextSequenceValue(connection, sequenceName)
Alloc_getNextSequenceValue(name) ==
  LET seqResult == sequence_rows[name] IN
  IF Len(seqResult) = 0
  THEN /\ Threw("getNextSequenceValue", name, "SequenceNotFound")
       /\ UNCHANGED sequence_rows
  ELSE /\ seqResult[1].current_value <= MaxSeqValue
       /\ sequence_rows' = IncrementRows(name, 1)
       /\ Returned("getNextSequenceValue", name, seqResult[1].current_value)

\* router.post('/purchase-orders'): the header id
Alloc_PO_HeaderId ==
  LET seqResult == sequence_rows["PO_HEADER_ID_SEQ"] IN
  IF Len(seqResult) = 0
  THEN /\ Threw("PO header id", "PO_HEADER_ID_SEQ", "SequenceNotFound")
       /\ UNCHANGED sequence_rows
  ELSE /\ seqResult[1].current_value <= MaxSeqValue
       /\ sequence_rows' = IncrementRows("PO_HEADER_ID_SEQ", 1)
       /\ Returned("PO header id", "PO_HEADER_ID_SEQ", seqResult[1].current_value)

\* router.post('/purchase-orders'): the id of one line,
\* const lineId = lineSeqResult[0].current_value with no check of the length
Alloc_PO_LineId ==
  LET lineSeqResult == sequence_rows["PO_LINE_ID_SEQ"] IN
  IF Len(lineSeqResult) = 0
  THEN /\ Threw("PO line id", "PO_LINE_ID_SEQ", "TypeError")
       /\ UNCHANGED sequence_rows
  ELSE /\ lineSeqResult[1].current_value <= MaxSeqValue
       /\ sequence_rows' = IncrementRows("PO_LINE_ID_SEQ", 1)
       /\ Returned("PO line id", "PO_LINE_ID_SEQ", lineSeqResult[1].current_value)

\* receipts.js getNextSequenceValue(sequenceName): UPDATE, then SELECT,
\* return nextVal[0].current_value
Alloc_AR_getNextSequenceValue(name) ==
  LET nextVal == IncrementRows(name, IF Len(sequence_rows[name]) = 0 THEN 0
                                     ELSE sequence_rows[name][1].increment_by)[name] IN
  /\ Len(sequence_rows[name]) > 0 => sequence_rows[name][1].current_value <= MaxSeqValue
  /\ sequence_rows' = [sequence_rows EXCEPT ![name] = nextVal]
  /\ IF Len(nextVal) = 0
     THEN Threw("AR getNextSequenceValue", name, "TypeError")
     ELSE Returned("AR getNextSequenceValue", name, nextVal[1].current_value)

\* any subset of the names is registered, each with current_value 1
Alloc_Start ==
  /\ \E registered \in SUBSET SeqNames :
       sequence_rows = [n \in SeqNames |->
          IF n \in registered THEN <<[current_value |-> 1, increment_by |-> 1]>> ELSE <<>>]
  /\ allocation = NoAllocation

Alloc_AtRest ==
  /\ sequence_rows = [n \in SeqNames |-> <<[current_value |-> 1, increment_by |-> 1]>>]
  /\ allocation = NoAllocation

NextAlloc ==
  \/ \E name \in SeqNames : Alloc_getNextSequenceValue(name)
  \/ Alloc_PO_HeaderId
  \/ Alloc_PO_LineId
  \/ \E name \in SeqNames : Alloc_AR_getNextSequenceValue(name)

(***************************************************************************)
(* Part XI: router.get('/generate-po-number') (routes/procurement.js),     *)
(* specification SpecGeneratePO. Requests for one year prefix run          *)
(* concurrently, each in its own transaction. A PO number is written       *)
(* without the prefix: the sequence of characters after "PO-PK-<year>-".   *)
(* The unique key of po_numbers.po_number is taken from the specification. *)
(***************************************************************************)
\* bound: requests accepted in one behaviour
MaxGenerates == 2

\* nextNumber.toString().padStart(4, '0')
PoNumberWidth == 4

\* parseInt of a string of decimal digits
RECURSIVE ParseInt(_)
ParseInt(str) ==
  IF str = <<>> THEN 0
  ELSE 10 * ParseInt(SubSeq(str, 1, Len(str) - 1))
       + (CHOOSE d \in 0..9 : DecimalDigits[d + 1] = str[Len(str)])

\* po_number values present in po_headers for the prefix: generated ones and
\* one typed by hand without zeros in front
HeaderNumbers == {<<"0", "0", "0", "1">>, <<"0", "0", "0", "3">>, <<"2">>}

\* rows of the tracking table before the first request
TrackingSeeds == {{}, {<<"0", "0", "0", "2">>}}

VARIABLES
  po_header_numbers, \* po_number of the rows of po_headers with the prefix
  po_numbers,        \* rows of the tracking table: [po_number, request, tx] (tx = 0 once committed)
  gen,               \* p -> the request run as p: [pc, request, nextNumber, generatedPO, free]
  genRequests,       \* requests accepted so far
  genResult          \* p -> the last answer of a request run as p: [http, po_number]

genVars == <<po_header_numbers, po_numbers, gen, genRequests, genResult>>

Gen_Idle == [pc |-> "idle", request |-> 0, nextNumber |-> 0, generatedPO |-> <<>>, free |-> FALSE]

\* committed rows of po_numbers, as a SELECT of another transaction reads them
CommittedTracking == {r.po_number : r \in {x \in po_numbers : x.tx = 0}}

\* the numbers the two scans find: match(prefix-(\d+)), parseInt, filter(num > 0)
UsedNumbers(rows) == {ParseInt(s) : s \in rows} \ {0}

SetMax(S) == IF S = {} THEN 0 ELSE CHOOSE m \in S : \A x \in S : x <= m

NextAvailable_AfterMax(allUsedNumbers) == SetMax(allUsedNumbers) + 1
\* for (let i = 1; i <= maxNumber + 1; i++) if (!allUsedNumbers.includes(i)) { nextNumber = i; break; }
NextAvailable(allUsedNumbers) ==
  CHOOSE i \in 1..(SetMax(allUsedNumbers) + 1) :
    /\ i \notin allUsedNumbers
    /\ \A j \in 1..(i - 1) : j \in allUsedNumbers

\* pool.getConnection(), beginTransaction()
GenPO_Begin(p) ==
  /\ gen[p].pc = "idle"
  /\ genRequests < MaxGenerates
  /\ genRequests' = genRequests + 1
  /\ gen' = [gen EXCEPT ![p] = [Gen_Idle EXCEPT !.pc = "scan", !.request = genRequests + 1]]
  /\ genResult' = [genResult EXCEPT ![p] = [http |-> 0, po_number |-> <<>>]]
  /\ UNCHANGED <<po_header_numbers, po_numbers>>

\* the two SELECT po_number ... LIKE scans, nextNumber and generatedPO
GenPO_Scan(p) ==
  /\ gen[p].pc = "scan"
  /\ LET nextNumber == NextAvailable(UsedNumbers(po_header_numbers) \cup UsedNumbers(CommittedTracking))
     IN gen' = [gen EXCEPT ![p].pc = "count", ![p].nextNumber = nextNumber,
                           ![p].generatedPO = PadStart(DecimalString(nextNumber), PoNumberWidth, "0")]
  /\ UNCHANGED <<po_header_numbers, po_numbers, genRequests, genResult>>

\* the two SELECT COUNT(*) ... WHERE po_number = ? checks
GenPO_Count(p) ==
  /\ gen[p].pc = "count"
  /\ gen' = [gen EXCEPT ![p].pc = "decide",
                        ![p].free = /\ gen[p].generatedPO \notin po_header_numbers
                                    /\ gen[p].generatedPO \notin CommittedTracking]
  /\ UNCHANGED <<po_header_numbers, po_numbers, genRequests, genResult>>

\* the transaction of p ends with a rollback and the answer http
GenPO_Fail(p, http) ==
  /\ po_numbers' = {r \in po_numbers : r.tx # p}
  /\ genResult' = [genResult EXCEPT ![p] = [http |-> http, po_number |-> <<>>]]
  /\ gen' = [gen EXCEPT ![p] = Gen_Idle]
  /\ UNCHANGED <<po_header_numbers, genRequests>>

\* the unique key of po_numbers.po_number: an INSERT waits while another
\* transaction holds an uncommitted row with the same po_number
UniqueKeyWaits(p, po_number) ==
  \E r \in po_numbers : r.po_number = po_number /\ r.tx \notin {0, p}

\* the unique key of po_numbers.po_number: an INSERT of a po_number that a
\* committed row carries fails with ER_DUP_ENTRY
UniqueKeyViolated(po_number) == po_number \in CommittedTracking

\* both counts 0: INSERT INTO po_numbers (an error is caught: rollback,
\* release, 500); otherwise rollback and 409
GenPO_Insert(p) ==
  /\ gen[p].pc = "decide"
  /\ IF ~gen[p].free THEN GenPO_Fail(p, 409)
     ELSE /\ ~UniqueKeyWaits(p, gen[p].generatedPO)
          /\ IF UniqueKeyViolated(gen[p].generatedPO)
             THEN GenPO_Fail(p, 500)
             ELSE /\ po_numbers' = po_numbers \cup
                       {[po_number |-> gen[p].generatedPO, request |-> gen[p].request, tx |-> p]}
                  /\ gen' = [gen EXCEPT ![p].pc = "commit"]
                  /\ UNCHANGED <<po_header_numbers, genRequests, genResult>>

\* connection.commit(), release, res.json({ po_number: generatedPO, success: true })
GenPO_Commit(p) ==
  /\ gen[p].pc = "commit"
  /\ po_numbers' = {IF r.tx = p THEN [r EXCEPT !.tx = 0] ELSE r : r \in po_numbers}
  /\ genResult' = [genResult EXCEPT ![p] = [http |-> 200, po_number |-> gen[p].generatedPO]]
  /\ gen' = [gen EXCEPT ![p] = Gen_Idle]
  /\ UNCHANGED <<po_header_numbers, genRequests>>

\* purchase orders and tracking rows that exist before the first request
GeneratePO_Start ==
  /\ po_header_numbers \in SUBSET HeaderNumbers
  /\ \E seeds \in TrackingSeeds :
       po_numbers = {[po_number |-> s, request |-> 0, tx |-> 0] : s \in seeds}
  /\ gen = [p \in Procs |-> Gen_Idle]
  /\ genRequests = 0
  /\ genResult = [p \in Procs |-> [http |-> 0, po_number |-> <<>>]]

GeneratePO_AtRest ==
  /\ po_header_numbers = {}
  /\ po_numbers = {}
  /\ gen = [p \in Procs |-> Gen_Idle]
  /\ genRequests = 0
  /\ genResult = [p \in Procs |-> [http |-> 0, po_number |-> <<>>]]

NextGeneratePO ==
  \E p \in Procs :
    \/ GenPO_Begin(p)
    \/ GenPO_Scan(p)
    \/ GenPO_Count(p)
    \/ GenPO_Insert(p)
    \/ GenPO_Commit(p)

(***************************************************************************)
(* Part XII: the status rollup of a purchase order on its own              *)
(* (updatePOStatusFromReceipts, routes/procurement.js), specification      *)
(* SpecRollup: a purchase order of any status and any ordered quantity, a  *)
(* rollup per goods-receipt create or update.                              *)
(***************************************************************************)
VARIABLES
  rollup   \* [status, lines, rows, before]: po_headers.status, the order's
           \* po_lines, the po_receipt_lines joined by the latest rollup and
           \* the status that rollup found ("" before the first one)

rollupVars == <<rollup>>

\* POST /receipts or PUT /receipts/:id stored receipt lines and ran
\* updatePOStatusFromReceipts(connection, header_id)
Rollup_AfterReceipt ==
  \E rows \in RollupRows :
    rollup' = [rollup EXCEPT
                 !.rows = rows,
                 !.before = rollup.status,
                 !.status = updatePOStatusFromReceipts(rollup.status, rollup.lines, rows)]

Rollup_Start ==
  \E status \in ValidStatuses("PURCHASE_ORDER"), lines \in RollupLines :
    rollup = [status |-> status, lines |-> lines, rows |-> <<>>, before |-> ""]

Rollup_AtRest ==
  rollup = [status |-> "DRAFT", lines |-> <<[quantity |-> 0]>>, rows |-> <<>>, before |-> ""]

NextRollup ==
  \/ Rollup_AfterReceipt

(***************************************************************************)
(* Part XIII: the audit trail of document creation (routes/procurement.js): *)
(* POST /requisitions, POST /agreements, POST /purchase-orders and, as the *)
(* handler that does write an entry before its commit, PUT                 *)
(* /purchase-orders/:id. Specification SpecAudit; handlers run             *)
(* concurrently, one per element of Procs.                                 *)
(***************************************************************************)
\* bound: requests accepted in one behaviour
MaxAuditRequests == 2

\* bound: lines of a request body
MaxAuditLines == 1

VARIABLES
  created,       \* rows of po_requisitions, po_agreements and po_headers:
                 \* [document_type, document_id, tx], tx = 0 once committed
  po_audit_log,  \* the rows of po_audit_log, oldest first:
                 \* [action, document_type, document_id, tx]
  crNextId,      \* current_value of the id sequences (one counter stands for them)
  crNow,         \* Date.now()
  cr,            \* per handler: [route, pc, document_id, lines]
  crAnswer,      \* per handler, its latest answer: [route, http, document_id]
  crRequests     \* requests accepted so far

auditVars == <<created, po_audit_log, crNextId, crNow, cr, crAnswer, crRequests>>

CR_Idle == [route |-> "", pc |-> "idle", document_id |-> 0, lines |-> 0]
CR_NoAnswer == [route |-> "", http |-> 0, document_id |-> 0]

\* document_type of the audit entries of a route
DocumentTypeOf(route) ==
  CASE route = "POST /requisitions" -> "REQUISITION"
    [] route = "POST /agreements" -> "AGREEMENT"
    [] OTHER -> "PURCHASE_ORDER"

\* logAuditTrail(connection, userId, action, documentType, documentId, ...):
\* one INSERT INTO po_audit_log on the caller's connection; an error of the
\* INSERT is caught and logged, the caller goes on
logAuditTrail(log, p, action, documentType, documentId, insertFails) ==
  IF insertFails THEN log
  ELSE Append(log, [action |-> action, document_type |-> documentType,
                    document_id |-> documentId, tx |-> p])

\* connection.commit() of the handler run as p
CR_Committed(rows, p) == {IF r.tx = p THEN [r EXCEPT !.tx = 0] ELSE r : r \in rows}
CR_CommitLog(log, p) ==
  [i \in 1..Len(log) |-> IF log[i].tx = p THEN [log[i] EXCEPT !.tx = 0] ELSE log[i]]

\* connection.rollback() of the handler run as p
CR_RollbackLog(log, p) == SelectSeq(log, LAMBDA e : e.tx # p)

CR_Accept(p, route, firstPc, document_id, lines) ==
  /\ cr[p].pc = "idle"
  /\ crRequests < MaxAuditRequests
  /\ crRequests' = crRequests + 1
  /\ cr' = [cr EXCEPT ![p] = [route |-> route, pc |-> firstPc, document_id |-> document_id,
                              lines |-> lines]]
  /\ crAnswer' = [crAnswer EXCEPT ![p] = CR_NoAnswer]

CR_Answer(p, http) ==
  /\ crAnswer' = [crAnswer EXCEPT ![p] =
        [route |-> cr[p].route, http |-> http, document_id |-> cr[p].document_id]]
  /\ cr' = [cr EXCEPT ![p] = CR_Idle]

\* the catch block of a handler with a transaction: rollback, 500
CR_Throw(p, http) ==
  /\ created' = {r \in created : r.tx # p}
  /\ po_audit_log' = CR_RollbackLog(po_audit_log, p)
  /\ CR_Answer(p, http)

\* ------------------------------------------ router.post('/requisitions')
\* no transaction; getNextSequenceValue and generateDocumentNumber autocommit
AuditRequisition_Begin(p) ==
  /\ \E lines \in 0..MaxAuditLines :
       CR_Accept(p, "POST /requisitions", "rq_header", crNextId, lines)
  /\ crNextId' = crNextId + 1
  /\ UNCHANGED <<created, po_audit_log, crNow>>

\* the parameters of INSERT INTO po_requisitions end with req.user.id: the
\* route has no authenticateToken, req.user is undefined, the expression
\* throws TypeError and the catch block answers 500; the statements after
\* it, the logAuditTrail call included, are never reached
AuditRequisition_Header(p) ==
  /\ cr[p].pc = "rq_header"
  /\ CR_Answer(p, 500)
  /\ UNCHANGED <<created, po_audit_log, crNextId, crNow, crRequests>>

\* -------------------------------------------- router.post('/agreements')
\* beginTransaction; 400 after rollback when supplier_id or agreement_number
\* is missing or the supplier does not exist; agreementId = Date.now()
AuditAgreement_Begin(p) ==
  /\ \E lines \in 0..MaxAuditLines, valid \in BOOLEAN, now \in {crNow, crNow + 1} :
       /\ now <= MaxAuditRequests
       /\ crNow' = now
       /\ CR_Accept(p, "POST /agreements", IF valid THEN "ag_header" ELSE "ag_invalid",
                    now, lines)
  /\ UNCHANGED <<created, po_audit_log, crNextId>>

AuditAgreement_Invalid(p) ==
  /\ cr[p].pc = "ag_invalid"
  /\ CR_Answer(p, 400)
  /\ UNCHANGED <<created, po_audit_log, crNextId, crNow, crRequests>>

\* INSERT INTO po_agreements: waits for an uncommitted row of the same id,
\* ER_DUP_ENTRY on a committed one; the catch block answers 500 and neither
\* rolls back nor releases
AuditAgreement_Header(p) ==
  /\ cr[p].pc = "ag_header"
  /\ LET same == {r \in created : r.document_type = "AGREEMENT"
                                  /\ r.document_id = cr[p].document_id}
     IN  /\ \A r \in same : r.tx = 0
         /\ IF same # {}
            THEN /\ CR_Answer(p, 500)
                 /\ UNCHANGED created
            ELSE /\ created' = created \cup
                       {[document_type |-> "AGREEMENT", document_id |-> cr[p].document_id,
                         tx |-> p]}
                 /\ cr' = [cr EXCEPT ![p].pc = "ag_lines"]
                 /\ UNCHANGED crAnswer
  /\ UNCHANGED <<po_audit_log, crNextId, crNow, crRequests>>

\* INSERT INTO po_agreement_lines, once per line
AuditAgreement_Line(p) ==
  /\ cr[p].pc = "ag_lines"
  /\ cr[p].lines > 0
  /\ cr' = [cr EXCEPT ![p].lines = @ - 1]
  /\ UNCHANGED <<created, po_audit_log, crNextId, crNow, crAnswer, crRequests>>

\* connection.release() and the 201 answer: no logAuditTrail call and no
\* connection.commit() in the handler; the transaction stays open on the
\* pooled connection
AuditAgreement_Respond(p) ==
  /\ cr[p].pc = "ag_lines"
  /\ cr[p].lines = 0
  /\ crAnswer' = [crAnswer EXCEPT ![p] =
        [route |-> cr[p].route, http |-> 201, document_id |-> cr[p].document_id]]
  /\ cr' = [cr EXCEPT ![p].pc = "released"]
  /\ UNCHANGED <<created, po_audit_log, crNextId, crNow, crRequests>>

\* the released connection is used again: the beginTransaction of its next
\* handler commits the transaction left open; a connection closed first
\* rolls it back
AuditConnection_Reused(p) ==
  /\ cr[p].pc = "released"
  /\ \E committed \in BOOLEAN :
       /\ created' = IF committed THEN CR_Committed(created, p)
                     ELSE {r \in created : r.tx # p}
       /\ po_audit_log' = IF committed THEN CR_CommitLog(po_audit_log, p)
                          ELSE CR_RollbackLog(po_audit_log, p)
  /\ cr' = [cr EXCEPT ![p] = CR_Idle]
  /\ UNCHANGED <<crNextId, crNow, crAnswer, crRequests>>

\* ----------------------------------------- router.post('/purchase-orders')
\* authenticateToken, beginTransaction, the header id from PO_HEADER_ID_SEQ
AuditPO_Begin(p) ==
  /\ \E lines \in 0..MaxAuditLines :
       CR_Accept(p, "POST /purchase-orders", "po_header", crNextId, lines)
  /\ crNextId' = crNextId + 1
  /\ UNCHANGED <<created, po_audit_log, crNow>>

\* 'At least one line item is required' is thrown before the INSERT INTO
\* po_headers; the catch block rolls back
AuditPO_Header(p) ==
  /\ cr[p].pc = "po_header"
  /\ IF cr[p].lines = 0
     THEN CR_Throw(p, 500)
     ELSE /\ created' = created \cup
               {[document_type |-> "PURCHASE_ORDER", document_id |-> cr[p].document_id,
                 tx |-> p]}
          /\ cr' = [cr EXCEPT ![p].pc = "po_lines"]
          /\ UNCHANGED <<po_audit_log, crAnswer>>
  /\ UNCHANGED <<crNextId, crNow, crRequests>>

\* INSERT INTO po_lines, once per line
AuditPO_Line(p) ==
  /\ cr[p].pc = "po_lines"
  /\ cr[p].lines > 0
  /\ cr' = [cr EXCEPT ![p].lines = @ - 1]
  /\ UNCHANGED <<created, po_audit_log, crNextId, crNow, crAnswer, crRequests>>

\* connection.commit() and the 201 answer; no logAuditTrail call in the handler
AuditPO_Commit(p) ==
  /\ cr[p].pc = "po_lines"
  /\ cr[p].lines = 0
  /\ created' = CR_Committed(created, p)
  /\ po_audit_log' = CR_CommitLog(po_audit_log, p)
  /\ CR_Answer(p, 201)
  /\ UNCHANGED <<crNextId, crNow, crRequests>>

\* ------------------------------------- router.put('/purchase-orders/:id')
\* beginTransaction, 404 when no committed row has the id, 400 without lines
AuditPO_Update(p) ==
  /\ \E document_id \in 1..MaxAuditRequests, lines \in 0..MaxAuditLines :
       CR_Accept(p, "PUT /purchase-orders/:id",
                 IF [document_type |-> "PURCHASE_ORDER", document_id |-> document_id,
                     tx |-> 0] \notin created THEN "up_missing"
                 ELSE IF lines = 0 THEN "up_invalid" ELSE "up_audit",
                 document_id, lines)
  /\ UNCHANGED <<created, po_audit_log, crNextId, crNow>>

AuditPO_UpdateRejected(p) ==
  /\ cr[p].pc \in {"up_missing", "up_invalid"}
  /\ CR_Answer(p, IF cr[p].pc = "up_missing" THEN 404 ELSE 400)
  /\ UNCHANGED <<created, po_audit_log, crNextId, crNow, crRequests>>

\* the header and line statements, then logAuditTrail(connection,
\* req.user.id, 'UPDATE', 'PURCHASE_ORDER', req.params.id, ...)
AuditPO_UpdateAudit(p) ==
  /\ cr[p].pc = "up_audit"
  /\ \E insertFails \in BOOLEAN :
       po_audit_log' = logAuditTrail(po_audit_log, p, "UPDATE", "PURCHASE_ORDER",
                                     cr[p].document_id, insertFails)
  /\ cr' = [cr EXCEPT ![p].pc = "up_commit"]
  /\ UNCHANGED <<created, crNextId, crNow, crAnswer, crRequests>>

\* connection.commit() and the 200 answer
AuditPO_UpdateCommit(p) ==
  /\ cr[p].pc = "up_commit"
  /\ po_audit_log' = CR_CommitLog(po_audit_log, p)
  /\ CR_Answer(p, 200)
  /\ UNCHANGED <<created, crNextId, crNow, crRequests>>

Audit_Start ==
  /\ created = {}
  /\ po_audit_log = <<>>
  /\ crNextId = 1
  /\ crNow = 1
  /\ cr = [p \in Procs |-> CR_Idle]
  /\ crAnswer = [p \in Procs |-> CR_NoAnswer]
  /\ crRequests = 0

Audit_AtRest ==
  /\ Audit_Start

NextAudit ==
  \/ \E p \in Procs : AuditRequisition_Begin(p)
  \/ \E p \in Procs : AuditRequisition_Header(p)
  \/ \E p \in Procs : AuditAgreement_Begin(p)
  \/ \E p \in Procs : AuditAgreement_Invalid(p)
  \/ \E p \in Procs : AuditAgreement_Header(p)
  \/ \E p \in Procs : AuditAgreement_Line(p)
  \/ \E p \in Procs : AuditAgreement_Respond(p)
  \/ \E p \in Procs : AuditConnection_Reused(p)
  \/ \E p \in Procs : AuditPO_Begin(p)
  \/ \E p \in Procs : AuditPO_Header(p)
  \/ \E p \in Procs : AuditPO_Line(p)
  \/ \E p \in Procs : AuditPO_Commit(p)
  \/ \E p \in Procs : AuditPO_Update(p)
  \/ \E p \in Procs : AuditPO_UpdateRejected(p)
  \/ \E p \in Procs : AuditPO_UpdateAudit(p)
  \/ \E p \in Procs : AuditPO_UpdateCommit(p)

(***************************************************************************)
(* Part XIV: updateInventoryFromGRN (routes/procurement.js) on a receipt   *)
(* with several lines of one item, specification SpecBatch. The purchase-  *)
(* order lines are those of Part III at rest.                              *)
(***************************************************************************)
\* bound: lines of one receipt
MaxBatchLines == 2

\* bound: largest quantity_accepted of a line
MaxBatchQty == 2

VARIABLES
  batch   \* [before, rows, isReversal, after]: the detail row of the item
          \* before and after the latest call, the receipt lines of the call

batchVars == <<batch>>

\* the po_receipt_lines of one receipt, all of the one item
BatchRows ==
  UNION {[1..n -> {[line_id |-> 1, quantity_accepted |-> a] : a \in 0..MaxBatchQty}] :
           n \in 1..MaxBatchLines}

\* a handler calls updateInventoryFromGRN(connection, receiptId, isReversal)
Batch_updateInventoryFromGRN ==
  /\ batch.after.box_quantity <= 100 * MaxBoxes
  /\ \E rows \in BatchRows, isReversal \in BOOLEAN :
       batch' = [before |-> batch.after, rows |-> rows, isReversal |-> isReversal,
                 after |-> updateInventoryFromGRN(batch.after, rows, isReversal)]

Batch_Start ==
  \E detail \in InitialDetails :
    batch = [before |-> detail, rows |-> <<>>, isReversal |-> FALSE, after |-> detail]

Batch_AtRest ==
  batch = [before |-> [box_quantity |-> 0, packet_quantity |-> 0], rows |-> <<>>,
           isReversal |-> FALSE, after |-> [box_quantity |-> 0, packet_quantity |-> 0]]

NextBatch ==
  \/ Batch_updateInventoryFromGRN

(***************************************************************************)
(* Part XV: po_headers.amount_received and the status rollup across        *)
(* POST /receipts, PUT /receipts/:id and DELETE /receipts/:id              *)
(* (routes/procurement.js), specification SpecReceived: one purchase order *)
(* with one line of OrderedQty units, each receipt with one line of it,    *)
(* the tables as the handlers' connection sees them.                       *)
(***************************************************************************)
\* bound: receipts of the purchase order
MaxRecvReceipts == 2

\* bound: largest total_amount of a receipt
MaxRecvAmount == 2

VARIABLES
  rcv_receipts,  \* receipt_id -> [status, total_amount, quantity_received, quantity_accepted]
  rcv_header,    \* the po_headers row: [status, amount_received]
  rcv_last       \* the handler that ran last: "", "POST", "PUT" or "DELETE"

recvVars == <<rcv_receipts, rcv_header, rcv_last>>

\* quantity_received and quantity_accepted of a request line
RecvQuantities == {<<1, 1>>, <<OrderedQty, OrderedQty>>, <<1, 0>>}

\* the po_receipt_lines joined to the purchase-order line, of the receipts in ids
RecvRows(receipts, ids) ==
  LET picked == SelectSeq([id \in DOMAIN receipts |-> id], LAMBDA id : id \in ids)
  IN  [k \in DOMAIN picked |->
         [line_id |-> 1, quantity_accepted |-> receipts[picked[k]].quantity_accepted,
          quantity_received |-> receipts[picked[k]].quantity_received]]

\* SELECT COALESCE(SUM(total_amount), 0) FROM po_receipts WHERE header_id = ?
TotalReceived(receipts) ==
  SumSeq([id \in DOMAIN receipts |-> receipts[id].total_amount])

\* updatePOStatusFromReceipts(connection, header_id): the join has no
\* condition on po_receipts.status
Recv_Rollup(status, receipts) ==
  updatePOStatusFromReceipts(status, <<[quantity |-> OrderedQty]>>,
                             RecvRows(receipts, DOMAIN receipts))

\* router.post('/receipts'): the receipt and its line, amount_received =
\* amount_received + totalAmount, the rollup
Recv_Create ==
  /\ Len(rcv_receipts) < MaxRecvReceipts
  /\ \E total_amount \in 1..MaxRecvAmount, q \in RecvQuantities :
       LET receipts == Append(rcv_receipts,
                         [status |-> "DRAFT", total_amount |-> total_amount,
                          quantity_received |-> q[1], quantity_accepted |-> q[2]])
       IN  /\ rcv_receipts' = receipts
           /\ rcv_header' = [status |-> Recv_Rollup(rcv_header.status, receipts),
                             amount_received |-> rcv_header.amount_received + total_amount]
  /\ rcv_last' = "POST"

\* router.put('/receipts/:id'): total_amount and status from the body, the
\* lines replaced, amount_received recomputed over every receipt of the
\* order, the rollup
Recv_Update ==
  /\ \E id \in DOMAIN rcv_receipts, total_amount \in 1..MaxRecvAmount, q \in RecvQuantities :
       LET receipts == [rcv_receipts EXCEPT ![id] =
                         [status |-> "DRAFT", total_amount |-> total_amount,
                          quantity_received |-> q[1], quantity_accepted |-> q[2]]]
       IN  /\ rcv_receipts' = receipts
           /\ rcv_header' = [status |-> Recv_Rollup(rcv_header.status, receipts),
                             amount_received |-> TotalReceived(receipts)]
  /\ rcv_last' = "PUT"

\* router.delete('/receipts/:id'): status = "CANCELLED"; po_headers is not
\* written and the rollup is not run
Recv_Cancel ==
  /\ \E id \in DOMAIN rcv_receipts :
       rcv_receipts' = [rcv_receipts EXCEPT ![id].status = "CANCELLED"]
  /\ rcv_last' = "DELETE"
  /\ UNCHANGED rcv_header

Recv_Start ==
  /\ rcv_receipts = <<>>
  /\ rcv_header = [status |-> "APPROVED", amount_received |-> 0]
  /\ rcv_last = ""

Recv_AtRest ==
  /\ Recv_Start

NextReceived ==
  \/ Recv_Create
  \/ Recv_Update
  \/ Recv_Cancel

(***************************************************************************)
(* Part XVI: concurrent application requests against one invoice           *)
(* (routes/apPayments.js POST /:id/applications and POST /,                *)
(* routes/receipts.js POST /:receiptId/apply), specification SpecRace.     *)
(* Handlers run concurrently, one per element of Procs, each with a        *)
(* payment or receipt of its own; every statement goes to the pool on its  *)
(* own and takes effect when it is run. Amounts are in cents.              *)
(***************************************************************************)
\* bound: requests accepted in one behaviour
MaxRaceRequests == 2

RaceLedgers == {"AP", "AR"}

VARIABLES
  race_invoices,   \* ledger -> [total_amount, amount_paid, status], the invoice
  race_docs,       \* p -> [total_amount, amount_applied], the payment or receipt of p
  race,            \* p -> [route, pc, ledger, applied_amount, currentAmountPaid]
  raceRequests     \* requests accepted so far

raceVars == <<race_invoices, race_docs, race, raceRequests>>

Race_Idle == [route |-> "", pc |-> "idle", ledger |-> "AP", applied_amount |-> 0,
              currentAmountPaid |-> 0]

\* the SELECTs of payment (receipt) and invoice, then the two comparisons:
\* 400 when applied_amount exceeds what the payment or the invoice has left
Race_Check(p, route, ofLedger) ==
  /\ race[p].pc = "idle"
  /\ raceRequests < MaxRaceRequests
  /\ raceRequests' = raceRequests + 1
  /\ \E applied_amount \in 1..InvoiceTotal :
       LET invoice == race_invoices[ofLedger]
           remainingPaymentAmount == race_docs[p].total_amount - race_docs[p].amount_applied
           remainingInvoiceAmount == invoice.total_amount - invoice.amount_paid
       IN  race' = [race EXCEPT ![p] =
             IF applied_amount > remainingPaymentAmount \/ applied_amount > remainingInvoiceAmount
             THEN [Race_Idle EXCEPT !.route = route, !.ledger = ofLedger]
             ELSE [route |-> route, pc |-> "update", ledger |-> ofLedger,
                   applied_amount |-> applied_amount,
                   currentAmountPaid |-> invoice.amount_paid]]
  /\ UNCHANGED <<race_invoices, race_docs>>

\* ---------------------------- apPayments.js router.post('/:id/applications')
Race_AddApplication_Check(p) == Race_Check(p, "POST /api/ap/payments/:id/applications", "AP")

\* the INSERT, UPDATE ap_payments SET amount_applied = amount_applied + ?,
\* UPDATE ap_invoices SET amount_paid = amount_paid + ?, ...
Race_AddApplication_Update(p) ==
  /\ race[p].pc = "update"
  /\ race[p].route = "POST /api/ap/payments/:id/applications"
  /\ race_docs' = [race_docs EXCEPT ![p].amount_applied = @ + race[p].applied_amount]
  /\ race_invoices' = [race_invoices EXCEPT !["AP"] = UpdateInvoiceSql(@, race[p].applied_amount)]
  /\ race' = [race EXCEPT ![p].pc = "idle"]
  /\ UNCHANGED raceRequests

\* ------------------------------ receipts.js router.post('/:receiptId/apply')
Race_ApplyReceipt_Check(p) == Race_Check(p, "POST /api/receipts/:receiptId/apply", "AR")

\* the INSERT, the two UPDATEs, then the read-back that forces the status
\* computed from the amount_paid read before the check
Race_ApplyReceipt_Update(p) ==
  /\ race[p].pc = "update"
  /\ race[p].route = "POST /api/receipts/:receiptId/apply"
  /\ race_docs' = [race_docs EXCEPT ![p].amount_applied = @ + race[p].applied_amount]
  /\ race_invoices' = [race_invoices EXCEPT !["AR"] =
        [UpdateInvoiceSql(@, race[p].applied_amount) EXCEPT
           !.status = NewStatus(race_invoices["AR"].total_amount, race[p].currentAmountPaid,
                                race[p].applied_amount)]]
  /\ race' = [race EXCEPT ![p].pc = "idle"]
  /\ UNCHANGED raceRequests

\* ------------------- apPayments.js router.post('/') with status 'PAID'
\* one application: the invoice is read for unapplied_amount only, nothing
\* is compared with the amount due
Race_CreatePayment_Read(p) ==
  /\ race[p].pc = "idle"
  /\ raceRequests < MaxRaceRequests
  /\ raceRequests' = raceRequests + 1
  /\ \E applied_amount \in 1..InvoiceTotal :
       race' = [race EXCEPT ![p] =
                  [route |-> "POST /api/ap/payments", pc |-> "update", ledger |-> "AP",
                   applied_amount |-> applied_amount,
                   currentAmountPaid |-> race_invoices["AP"].amount_paid]]
  /\ UNCHANGED <<race_invoices, race_docs>>

\* the INSERT and, the payment being PAID, the UPDATE of ap_invoices
Race_CreatePayment_Update(p) ==
  /\ race[p].pc = "update"
  /\ race[p].route = "POST /api/ap/payments"
  /\ race_invoices' = [race_invoices EXCEPT !["AP"] = UpdateInvoiceSql(@, race[p].applied_amount)]
  /\ race' = [race EXCEPT ![p].pc = "idle"]
  /\ UNCHANGED <<race_docs, raceRequests>>

\* one OPEN invoice per ledger with nothing paid, a payment or receipt of the
\* invoice's amount per handler with nothing applied
Race_Start ==
  /\ race_invoices = [l \in RaceLedgers |->
        [total_amount |-> InvoiceTotal, amount_paid |-> 0, status |-> "OPEN"]]
  /\ race_docs = [p \in Procs |-> [total_amount |-> InvoiceTotal, amount_applied |-> 0]]
  /\ race = [p \in Procs |-> Race_Idle]
  /\ raceRequests = 0

Race_AtRest ==
  /\ Race_Start

NextRace ==
  \/ \E p \in Procs : Race_AddApplication_Check(p)
  \/ \E p \in Procs : Race_AddApplication_Update(p)
  \/ \E p \in Procs : Race_ApplyReceipt_Check(p)
  \/ \E p \in Procs : Race_ApplyReceipt_Update(p)
  \/ \E p \in Procs : Race_CreatePayment_Read(p)
  \/ \E p \in Procs : Race_CreatePayment_Update(p)

(***************************************************************************)
(* The specifications. Each one runs one part of the program while the     *)
(* tables of the other parts are at rest.                                  *)
(***************************************************************************)
\* the parts VII and later
laterVars == <<poolVars, statusVars, docNumVars, allocVars, genVars, rollupVars, auditVars, batchVars, recvVars, raceVars>>

Later_AtRest ==
  /\ Race_AtRest
  /\ Recv_AtRest
  /\ Batch_AtRest
  /\ Audit_AtRest
  /\ Rollup_AtRest
  /\ GeneratePO_AtRest
  /\ Alloc_AtRest
  /\ DocNum_AtRest
  /\ Status_AtRest
  /\ Pool_AtRest

earlierVars == <<seqVars, setVars, grnVars, rtVars, potVars, itemVars>>

vars == <<earlierVars, laterVars>>


\* the settlement ledgers with nothing in flight
Settlement_AtRest ==
  /\ ap_invoices = [i \in InvoiceIds |->
        [total_amount |-> InvoiceTotal, amount_paid |-> 0, status |-> "OPEN"]]
  /\ ar_invoices = [i \in InvoiceIds |->
        [total_amount |-> InvoiceTotal, amount_paid |-> 0, status |-> "OPEN"]]
  /\ ap_payments = <<>>
  /\ ap_payment_applications = <<>>
  /\ ar_receipts = <<>>
  /\ ar_receipt_applications = <<>>
  /\ ledger = "AP"
  /\ resp = 0
  /\ answered = NoAnswer
  /\ deletes = 0
  /\ req = NoRequest

\* the purchase order with no goods receipt yet
GRN_AtRest ==
  /\ po_agreements = 0
  /\ po_status = "APPROVED"
  /\ po_lines = [l \in POLineIds |->
        [quantity |-> OrderedQty, quantity_received |-> 0, packet_quantity |-> 0]]
  /\ po_receipts = <<>>
  /\ po_receipt_lines = <<>>
  /\ inventory = [box_quantity |-> 0, packet_quantity |-> 0]
  /\ stock = [initial |-> inventory, clamped |-> FALSE]
  /\ openTx = FALSE
  /\ grn = GRN_Idle

\* the parts I to VI with nothing in flight
Earlier_AtRest ==
  /\ InitSeq /\ Settlement_AtRest /\ GRN_AtRest /\ rt = RT_Start /\ PO_AtRest /\ Items_AtRest

\* ------------------------------------------------------------------------
\* the invoices exist before any payment or receipt; each is unpaid and in
\* any status an invoice can have with nothing paid
Init ==
  /\ InitSeq
  /\ \E st \in [InvoiceIds -> InvoiceStatuses \ {"PAID"}] :
       /\ ap_invoices = [i \in InvoiceIds |->
             [total_amount |-> InvoiceTotal, amount_paid |-> 0, status |-> st[i]]]
       /\ ar_invoices = [i \in InvoiceIds |->
             [total_amount |-> InvoiceTotal, amount_paid |-> 0, status |-> st[i]]]
  /\ ap_payments = <<>>
  /\ ap_payment_applications = <<>>
  /\ ar_receipts = <<>>
  /\ ar_receipt_applications = <<>>
  /\ ledger \in {"AP", "AR"}
  /\ resp = 0
  /\ answered = NoAnswer
  /\ deletes = 0
  /\ req = NoRequest
  /\ GRN_AtRest
  /\ rt = RT_Start
  /\ PO_AtRest
  /\ Items_AtRest
  /\ Later_AtRest

Next ==
  \/ AP_CreatePayment_Begin
  \/ AP_CreatePayment_Line
  \/ AP_CreatePayment_End
  \/ AP_UpdatePayment_Begin
  \/ AP_UpdatePayment_Line
  \/ AP_UpdatePayment_End
  \/ AP_AddApplication
  \/ AR_CreateReceipt_Begin
  \/ AR_CreateReceipt_Line
  \/ AR_CreateReceipt_End
  \/ AR_UpdateReceipt_Begin
  \/ AR_UpdateReceipt_Line
  \/ AR_UpdateReceipt_End
  \/ AR_ApplyReceipt

\* the settlement handlers with the soft delete and the list fetches
NextDocs ==
  \/ AP_CreatePayment_Begin
  \/ AP_CreatePayment_Line
  \/ AP_CreatePayment_End
  \/ AP_UpdatePayment_Begin
  \/ AP_UpdatePayment_Line
  \/ AP_UpdatePayment_End
  \/ AP_AddApplication
  \/ AR_CreateReceipt_Begin
  \/ AR_CreateReceipt_Line
  \/ AR_CreateReceipt_End
  \/ AR_UpdateReceipt_Begin
  \/ AR_UpdateReceipt_Line
  \/ AR_UpdateReceipt_End
  \/ AR_ApplyReceipt
  \/ AP_DeletePayment
  \/ AP_ListPayments
  \/ AR_ListReceipts

\* every invoice OPEN and unpaid, no payment or receipt yet, either ledger
InitDocs ==
  /\ InitSeq
  /\ ap_invoices = [i \in InvoiceIds |->
        [total_amount |-> InvoiceTotal, amount_paid |-> 0, status |-> "OPEN"]]
  /\ ar_invoices = [i \in InvoiceIds |->
        [total_amount |-> InvoiceTotal, amount_paid |-> 0, status |-> "OPEN"]]
  /\ ap_payments = <<>>
  /\ ap_payment_applications = <<>>
  /\ ar_receipts = <<>>
  /\ ar_receipt_applications = <<>>
  /\ ledger \in {"AP", "AR"}
  /\ resp = 0
  /\ answered = NoAnswer
  /\ deletes = 0
  /\ req = NoRequest
  /\ GRN_AtRest
  /\ rt = RT_Start
  /\ PO_AtRest
  /\ Items_AtRest
  /\ Later_AtRest

SpecDocs ==
  InitDocs /\ [][NextDocs /\ UNCHANGED <<grnVars, rtVars, potVars, itemVars, laterVars>>]_vars

\* the handlers of apPayments.js that create, change or delete a payment
NextPromote ==
  \/ AP_CreatePayment_Begin
  \/ AP_CreatePayment_Line
  \/ AP_CreatePayment_End
  \/ AP_UpdatePayment_Begin
  \/ AP_UpdatePayment_Line
  \/ AP_UpdatePayment_End
  \/ AP_AddApplication
  \/ AP_DeletePayment
  \/ AP_PatchPaymentStatus

\* every invoice OPEN and unpaid, no payment yet, the AP ledger
InitPromote ==
  /\ InitDocs
  /\ ledger = "AP"

SpecPromote ==
  InitPromote /\ [][NextPromote /\ UNCHANGED <<grnVars, rtVars, potVars, itemVars, laterVars>>]_vars

Spec == Init /\ [][Next /\ UNCHANGED <<grnVars, rtVars, potVars, itemVars, laterVars>>]_vars

\* the request handlers of Part I running concurrently, the ledgers at rest
SpecSeq == Init /\ [][NextSeq /\ UNCHANGED <<setVars, grnVars, rtVars, potVars, itemVars, laterVars>>]_vars

\* goods receipts, the status rollup and the inventory of Part III
InitGRN ==
  /\ InitSeq /\ Settlement_AtRest /\ GRN_Start /\ rt = RT_Start /\ PO_AtRest /\ Items_AtRest
  /\ Later_AtRest

SpecGRN ==
  InitGRN
  /\ [][NextGRN /\ UNCHANGED <<seqVars, setVars, rtVars, potVars, itemVars, laterVars>>]_vars

\* the purchase order at rest but for the item's detail row
GRN_AtRestButInventory ==
  /\ po_agreements = 0
  /\ po_status = "APPROVED"
  /\ po_lines = [l \in POLineIds |->
        [quantity |-> OrderedQty, quantity_received |-> 0, packet_quantity |-> 0]]
  /\ po_receipts = <<>>
  /\ po_receipt_lines = <<>>
  /\ stock = [initial |-> inventory, clamped |-> FALSE]
  /\ openTx = FALSE
  /\ grn = GRN_Idle

\* apply-then-reverse round trips of Part IV on one detail row
InitRoundTrip ==
  /\ InitSeq /\ Settlement_AtRest /\ RT_Detail /\ GRN_AtRestButInventory /\ PO_AtRest
  /\ Items_AtRest /\ Later_AtRest

SpecRoundTrip ==
  InitRoundTrip
  /\ [][NextRoundTrip /\ UNCHANGED <<seqVars, setVars, po_agreements, po_status, po_lines,
                                      po_receipts, po_receipt_lines, openTx, grn, stock,
                                      potVars, itemVars, laterVars>>]_vars

\* purchase-order create and updates of Part V
InitPOTotals ==
  /\ InitSeq /\ Settlement_AtRest /\ GRN_AtRest /\ rt = RT_Start /\ PO_AtRest /\ Items_AtRest
  /\ Later_AtRest

SpecPOTotals ==
  InitPOTotals
  /\ [][NextPOTotals /\ UNCHANGED <<seqVars, setVars, grnVars, rtVars, itemVars, laterVars>>]_vars

\* concurrent inventory-item creates and updates of Part VI
InitItems ==
  /\ InitSeq /\ Settlement_AtRest /\ GRN_AtRest /\ rt = RT_Start /\ PO_AtRest /\ Items_AtRest
  /\ Later_AtRest

SpecItems ==
  InitItems
  /\ [][NextItems /\ UNCHANGED <<seqVars, setVars, grnVars, rtVars, potVars, laterVars>>]_vars

\* the handlers of Part VII on the connection pool
InitPool ==
  /\ Earlier_AtRest /\ Status_AtRest /\ DocNum_AtRest /\ Alloc_AtRest /\ GeneratePO_AtRest /\ Rollup_AtRest /\ Audit_AtRest /\ Batch_AtRest /\ Recv_AtRest /\ Race_AtRest
  /\ Pool_AtRest

SpecPool ==
  InitPool
  /\ [][NextPool /\ UNCHANGED <<earlierVars, statusVars, docNumVars, allocVars, genVars, rollupVars, auditVars, batchVars, recvVars, raceVars>>]_vars

\* the status handlers of Part VIII
InitStatus ==
  /\ Earlier_AtRest /\ Pool_AtRest /\ DocNum_AtRest /\ Alloc_AtRest /\ GeneratePO_AtRest /\ Rollup_AtRest /\ Audit_AtRest /\ Batch_AtRest /\ Recv_AtRest /\ Race_AtRest
  /\ Status_Start

SpecStatus ==
  InitStatus
  /\ [][NextStatus /\ UNCHANGED <<earlierVars, poolVars, docNumVars, allocVars, genVars, rollupVars, auditVars, batchVars, recvVars, raceVars>>]_vars

\* the handlers of Part IX that create numbered documents, running concurrently
InitDocNumbers ==
  /\ Earlier_AtRest /\ Status_AtRest /\ Pool_AtRest /\ Alloc_AtRest /\ GeneratePO_AtRest /\ Rollup_AtRest /\ Audit_AtRest /\ Batch_AtRest /\ Recv_AtRest /\ Race_AtRest
  /\ DocNum_Start

SpecDocNumbers ==
  InitDocNumbers
  /\ [][NextDocNumbers /\ UNCHANGED <<earlierVars, poolVars, statusVars, allocVars, genVars, rollupVars, auditVars, batchVars, recvVars, raceVars>>]_vars

\* the allocations of Part X, one at a time
InitAlloc ==
  /\ Earlier_AtRest /\ DocNum_AtRest /\ Status_AtRest /\ Pool_AtRest /\ GeneratePO_AtRest /\ Rollup_AtRest /\ Audit_AtRest /\ Batch_AtRest /\ Recv_AtRest /\ Race_AtRest
  /\ Alloc_Start

SpecAlloc ==
  InitAlloc
  /\ [][NextAlloc /\ UNCHANGED <<earlierVars, poolVars, statusVars, docNumVars, genVars, rollupVars, auditVars, batchVars, recvVars, raceVars>>]_vars

\* the requests of Part XI running concurrently
InitGeneratePO ==
  /\ Earlier_AtRest /\ Alloc_AtRest /\ DocNum_AtRest /\ Status_AtRest /\ Pool_AtRest /\ Rollup_AtRest /\ Audit_AtRest /\ Batch_AtRest /\ Recv_AtRest /\ Race_AtRest
  /\ GeneratePO_Start

SpecGeneratePO ==
  InitGeneratePO
  /\ [][NextGeneratePO /\ UNCHANGED <<earlierVars, poolVars, statusVars, docNumVars, allocVars, rollupVars, auditVars, batchVars, recvVars, raceVars>>]_vars

\* the status rollup on its own
InitRollup ==
  /\ Earlier_AtRest /\ GeneratePO_AtRest /\ Alloc_AtRest /\ DocNum_AtRest /\ Status_AtRest /\ Pool_AtRest /\ Audit_AtRest /\ Batch_AtRest /\ Recv_AtRest /\ Race_AtRest
  /\ Rollup_Start

SpecRollup ==
  InitRollup
  /\ [][NextRollup /\ UNCHANGED <<earlierVars, poolVars, statusVars, docNumVars, allocVars, genVars, auditVars, batchVars, recvVars, raceVars>>]_vars

\* the audit trail of document creation
InitAudit ==
  /\ Earlier_AtRest /\ Rollup_AtRest /\ GeneratePO_AtRest /\ Alloc_AtRest /\ DocNum_AtRest /\ Status_AtRest /\ Pool_AtRest /\ Batch_AtRest /\ Recv_AtRest /\ Race_AtRest
  /\ Audit_Start

SpecAudit ==
  InitAudit
  /\ [][NextAudit /\ UNCHANGED <<earlierVars, poolVars, statusVars, docNumVars, allocVars, genVars, rollupVars, batchVars, recvVars, raceVars>>]_vars

\* updateInventoryFromGRN on several lines of one item
InitBatch ==
  /\ Earlier_AtRest /\ Audit_AtRest /\ Rollup_AtRest /\ GeneratePO_AtRest /\ Alloc_AtRest /\ DocNum_AtRest /\ Status_AtRest /\ Pool_AtRest /\ Recv_AtRest /\ Race_AtRest
  /\ Batch_Start

SpecBatch ==
  InitBatch
  /\ [][NextBatch /\ UNCHANGED <<earlierVars, poolVars, statusVars, docNumVars, allocVars, genVars, rollupVars, auditVars, recvVars, raceVars>>]_vars

\* amount_received and the rollup across receipt create, update and cancel
InitReceived ==
  /\ Earlier_AtRest /\ Batch_AtRest /\ Audit_AtRest /\ Rollup_AtRest /\ GeneratePO_AtRest /\ Alloc_AtRest /\ DocNum_AtRest /\ Status_AtRest /\ Pool_AtRest /\ Race_AtRest
  /\ Recv_Start

SpecReceived ==
  InitReceived
  /\ [][NextReceived /\ UNCHANGED <<earlierVars, poolVars, statusVars, docNumVars, allocVars, genVars, rollupVars, auditVars, batchVars, raceVars>>]_vars

\* concurrent application requests against one invoice
InitRace ==
  /\ Earlier_AtRest /\ Recv_AtRest /\ Batch_AtRest /\ Audit_AtRest /\ Rollup_AtRest /\ GeneratePO_AtRest /\ Alloc_AtRest /\ DocNum_AtRest /\ Status_AtRest /\ Pool_AtRest
  /\ Race_Start

SpecRace ==
  InitRace
  /\ [][NextRace /\ UNCHANGED <<earlierVars, poolVars, statusVars, docNumVars, allocVars, genVars, rollupVars, auditVars, batchVars, recvVars>>]_vars

\* C1: under any interleaving of handlers calling the procurement allocator
\* getNextSequenceValue(connection, name) for one sequence name, with or
\* without an enclosing transaction, the values returned are distinct and each
\* later allocation returns a value strictly greater than every earlier one.
C1_ProcurementAllocatorUniqueIncreasing ==
  \A n \in {"PO_REQUISITION_ID_SEQ", "PO_LINE_ID_SEQ"} : StrictlyIncreasing(IssuedFor(n))

\* C2: two concurrent POST /purchase-orders never obtain the same header_id
\* from PO_HEADER_ID_SEQ; each caller receives a unique, increasing value.
C2_POHeaderIdUniqueIncreasing ==
  StrictlyIncreasing(IssuedFor("PO_HEADER_ID_SEQ"))

\* C3: the AR allocator getNextSequenceValue(sequenceName) returns to every
\* caller a value strictly greater than, and never equal to, any value
\* previously or concurrently issued for that name.
C3_ARAllocatorUniqueIncreasing ==
  StrictlyIncreasing(IssuedFor("AR_RECEIPT_ID_SEQ"))


\* ------------------------------------------------------------------------
\* the tables of the ledger the requests address
CurrentInvoices == IF ledger = "AP" THEN ap_invoices ELSE ar_invoices
CurrentDocs == IF ledger = "AP" THEN ap_payments ELSE ar_receipts
CurrentApplications ==
  IF ledger = "AP" THEN ap_payment_applications ELSE ar_receipt_applications

\* the invoices as last committed: those at START TRANSACTION while a request
\* is being handled
CommittedInvoices == IF Quiescent THEN CurrentInvoices ELSE req.saved[1].invoices

\* the statuses the status rule must not touch
TerminalStatuses == {"DRAFT", "CANCELLED", "VOID"}

CreateRoutes == {"POST /api/ap/payments", "POST /api/receipts"}
UpdateRoutes == {"PUT /api/ap/payments/:id", "PUT /api/receipts/:id"}

ApplicationsOfInvoice(rows, i) ==
  SelectSeq(rows, LAMBDA r : r.invoice_id = i /\ r.status = "ACTIVE")
ApplicationsOfDoc(rows, id) == SelectSeq(rows, LAMBDA r : r.doc_id = id)
LinesOfInvoice(lines, i) == SelectSeq(lines, LAMBDA l : l.invoice_id = i)

\* a step in which a handler accepts an application line and inserts its row
\* (a loop iteration of create / promote, or POST .../applications, .../apply)
InsertsApplication ==
  /\ req'.route = req.route
  /\ Len(CurrentApplications') = Len(CurrentApplications) + 1
InsertedRow == CurrentApplications'[Len(CurrentApplications')]

\* a step that ends a request: what is in the tables after it is what the
\* request committed
EndsRequest == req'.route = "idle"

\* C4: whenever no request is in progress, every invoice's amount_paid equals
\* the sum of applied_amount over its ACTIVE applications, in both ledgers.
C4_AmountPaidIsSumOfActiveApplications ==
  Quiescent =>
    /\ \A i \in InvoiceIds :
         ap_invoices[i].amount_paid =
           SumApplied(ApplicationsOfInvoice(ap_payment_applications, i))
    /\ \A i \in InvoiceIds :
         ar_invoices[i].amount_paid =
           SumApplied(ApplicationsOfInvoice(ar_receipt_applications, i))

\* C5: when a request ends having changed the amount_paid of an invoice whose
\* status was not DRAFT, CANCELLED or VOID, that invoice is PAID if
\* total_amount - amount_paid <= 0.01 and OPEN otherwise.
C5_StatusFollowsAmountDue ==
  [][EndsRequest =>
       \A i \in InvoiceIds :
         LET before == CommittedInvoices[i]
             after  == CurrentInvoices'[i]
         IN  (after.amount_paid # before.amount_paid /\ before.status \notin TerminalStatuses)
               => after.status = IF AmountDue(after) <= Tolerance THEN "PAID" ELSE "OPEN"]_vars

\* C6: no entry point accepts an application line whose applied_amount is
\* greater than the invoice's amount due at that moment: no application row
\* is inserted for such a line.
C6_OverApplicationRejected ==
  [][InsertsApplication =>
       InsertedRow.applied_amount <= AmountDue(CurrentInvoices[InsertedRow.invoice_id])]_vars

\* C7: whenever no request is in progress, no payment's or receipt's
\* amount_applied exceeds its payment_amount / total_amount.
C7_AppliedWithinDocumentAmount ==
  Quiescent =>
    /\ \A p \in 1..Len(ap_payments) :
         ap_payments[p].amount_applied <= ap_payments[p].payment_amount
    /\ \A r \in 1..Len(ar_receipts) :
         ar_receipts[r].amount_applied <= ar_receipts[r].total_amount

\* C8: no entry point accepts an application line whose applied_amount is
\* zero or negative: no application row is inserted for such a line.
C8_NonPositiveAmountRejected ==
  [][InsertsApplication => InsertedRow.applied_amount > 0]_vars

\* every step of the creation of a DRAFT payment or receipt leaves the invoices as they are
DraftCreateLeavesInvoices ==
  (req.route \in CreateRoutes /\ req.status = "DRAFT") => CurrentInvoices' = CurrentInvoices

\* the step that ends a successful promotion: the document's rows are the
\* request's lines, each invoice has gained the sum of its lines, the
\* document's amount_applied is the sum of the lines
PromotionRecreatesApplications ==
  (req.route \in UpdateRoutes /\ EndsRequest /\ resp' = 200) =>
    LET rows == ApplicationsOfDoc(CurrentApplications', req.id) IN
    /\ Len(rows) = Len(req.lines)
    /\ \A k \in 1..Len(rows) :
         /\ rows[k].invoice_id = req.lines[k].invoice_id
         /\ rows[k].applied_amount = req.lines[k].applied_amount
         /\ rows[k].status = "ACTIVE"
    /\ \A i \in InvoiceIds :
         CurrentInvoices'[i].amount_paid =
           req.saved[1].invoices[i].amount_paid + SumApplied(LinesOfInvoice(req.lines, i))
    /\ CurrentDocs'[req.id].amount_applied = SumApplied(req.lines)
    /\ CurrentDocs'[req.id].status = "PAID"

\* C9: creating a DRAFT payment or receipt with applications leaves every
\* invoice's amount_paid and status unchanged; a successful promotion of a
\* DRAFT to PAID with an application list replaces the document's applications
\* by the rows of the list, adds each applied_amount to its invoice's
\* amount_paid exactly once and sets amount_applied to the sum of the list.
C9_DraftThenPromotion ==
  [][DraftCreateLeavesInvoices /\ PromotionRecreatesApplications]_vars

\* a promotion in progress of a DRAFT that was created with applications: the
\* draft's rows were in the table when it began while the invoice they name
\* had nothing paid, and the promotion has recreated a row from its list and
\* added its amount to the invoice
C9_Witness ==
  /\ req.route \in UpdateRoutes
  /\ Len(req.lines) > 0
  /\ \E k \in 1..Len(req.saved[1].apps) :
       LET draft == req.saved[1].apps[k] IN
       /\ draft.doc_id = req.id
       /\ req.saved[1].docs[req.id].status = "DRAFT"
       /\ req.saved[1].invoices[draft.invoice_id].amount_paid = 0
  /\ ApplicationsOfDoc(CurrentApplications, req.id) # <<>>
  /\ \A i \in InvoiceIds :
       CurrentInvoices[i].amount_paid =
         req.saved[1].invoices[i].amount_paid + SumApplied(LinesOfInvoice(req.lines, i))

\* C10: when a request ends, an invoice that was DRAFT, CANCELLED or VOID
\* before it is still in that status.
C10_TerminalStatusKept ==
  [][EndsRequest =>
       \A i \in InvoiceIds :
         CommittedInvoices[i].status \in TerminalStatuses
           => CurrentInvoices'[i].status = CommittedInvoices[i].status]_vars

\* a create request ends with an error response
CreateFails == req.route \in CreateRoutes /\ EndsRequest /\ resp' \in {400, 500}

\* C19: payment and receipt creation are all-or-nothing: if processing of an
\* application line fails or is rejected, then after the handler returns no
\* header, no application row and no invoice balance change made by the
\* request is persisted.
C19_CreateAllOrNothing ==
  [][CreateFails =>
       /\ CurrentInvoices' = req.saved[1].invoices
       /\ CurrentDocs' = req.saved[1].docs
       /\ CurrentApplications' = req.saved[1].apps]_vars

(***************************************************************************)
(* Goods receipts, rollup and inventory (Part III)                         *)
(***************************************************************************)
\* ordered quantity summed once over the purchase-order lines
OrderedTotal == SumSeq([l \in DOMAIN po_lines |-> po_lines[l].quantity])
\* accepted and received quantity summed over all receipt lines
AcceptedTotal == SumSeq([k \in DOMAIN po_receipt_lines |-> po_receipt_lines[k].quantity_accepted])
ReceivedTotal == SumSeq([k \in DOMAIN po_receipt_lines |-> po_receipt_lines[k].quantity_received])

\* the rollup of the request in hand has just run
RollupDone == grn.step = "inventory"

\* C11: after any sequence of goods receipts against a purchase order with
\* ordered quantity > 0 (and not cancelled), the rollup leaves the status
\* CLOSED as soon as the accepted quantity summed over all receipt lines is
\* >= the ordered quantity summed once over the PO lines, and RECEIVED while
\* some quantity is received but accepted < ordered.
C11_RollupStatus ==
  (RollupDone /\ OrderedTotal > 0 /\ po_status # "CANCELLED") =>
     /\ AcceptedTotal >= OrderedTotal => po_status = "CLOSED"
     /\ (AcceptedTotal < OrderedTotal /\ ReceivedTotal > 0) => po_status = "RECEIVED"

\* C12: running updatePOStatusFromReceipts a second time, with no change to
\* receipts or PO lines since the first run, leaves the status the first run
\* left.
C12_RollupIdempotent ==
  RollupDone => updatePOStatusFromReceipts(po_status, po_lines, po_receipt_lines) = po_status

\* the rollup has run and has written a status
C12_Witness == RollupDone /\ po_status \in {"RECEIVED", "CLOSED"}

\* no goods-receipt request is in hand
GRN_AtIdle == grn.route = "idle"

\* quantity_accepted over the lines of the receipts that are not cancelled,
\* in hundredths of a unit
AcceptedByActiveReceipts ==
  SumSeq([k \in DOMAIN po_receipt_lines |->
            IF po_receipts[po_receipt_lines[k].receipt_id].status # "CANCELLED"
            THEN 100 * po_receipt_lines[k].quantity_accepted ELSE 0])

\* C14: after any sequence of goods-receipt create, update and cancel
\* operations in which no decrease is clamped at zero, the item's total units
\* (box_quantity x packets_per_box) equal its initial units plus the sum of
\* quantity_accepted over the lines of its non-cancelled receipts, within
\* rounding of 0.01 box.
C14_UnitsConserved ==
  (GRN_AtIdle /\ ~stock.clamped) =>
     Abs(TotalUnits(inventory) - (TotalUnits(stock.initial) + AcceptedByActiveReceipts))
        <= inventory.packet_quantity

\* C17: once packet_quantity is established as a value >= 1, no goods-receipt
\* create, update or cancel changes it.
C17_PacketsPerBoxConstant ==
  [][inventory.packet_quantity >= 1 => inventory'.packet_quantity = inventory.packet_quantity]_vars

\* the receipt lines of one purchase-order line
LinesOfPOLine(l) == SelectSeq(po_receipt_lines, LAMBDA r : r.line_id = l)

\* C18: for every purchase-order line, after any sequence of goods-receipt
\* create and update operations, the quantities summed over all receipts of
\* the line satisfy accepted + rejected <= received <= ordered.
C18_CumulativeQuantities ==
  GRN_AtIdle =>
    \A l \in POLineIds :
      LET rows     == LinesOfPOLine(l)
          accepted == SumSeq([k \in DOMAIN rows |-> rows[k].quantity_accepted])
          rejected == SumSeq([k \in DOMAIN rows |-> rows[k].quantity_rejected])
          received == SumSeq([k \in DOMAIN rows |-> rows[k].quantity_received])
      IN  /\ accepted + rejected <= received
          /\ received <= po_lines[l].quantity

\* a goods-receipt create or update, or an agreement create, answers success
ProcurementSuccess ==
  \/ grn.step = "respond" /\ grn'.route = "idle"
  \/ po_agreements' = po_agreements + 1

\* C20: every procurement mutation that reports success (agreement create,
\* goods-receipt create, goods-receipt update) has committed its transaction
\* before the response: no transaction stays open on the released connection.
C20_CommittedBeforeSuccess == [][ProcurementSuccess => ~openTx']_vars

\* the round trip in hand is complete
RoundTripDone == rt.step = "reversed"
\* box_quantity is back at its value before the delta, within 0.01
BackWithinTolerance == Abs(inventory.box_quantity - rt.before) <= 1

\* C13 as stated: for any item with packets_per_box > 0 and any positive
\* delta, applying the delta and then its full reversal, by
\* updateInventoryFromGRN or by updateInventoryFromARInvoice, returns
\* box_quantity to its pre-apply value within 0.01.
C13_RoundTrip == RoundTripDone => BackWithinTolerance

\* C13 amended: the same, for updateInventoryFromGRN always and for
\* updateInventoryFromARInvoice when the sale was not clamped at zero, that
\* is when the units in stock covered the delta.
C13_RoundTripUnclamped ==
  (RoundTripDone /\ (rt.path = "AR" => ~rt.clamped)) => BackWithinTolerance

\* a sale and its reversal done on a fractional box count that covers it
C13_Witness ==
  /\ RoundTripDone /\ rt.path = "AR" /\ ~rt.clamped
  /\ inventory.packet_quantity = MaxPacketsPerBox /\ rt.before % 100 # 0

(***************************************************************************)
(* Purchase-order totals (Part V)                                          *)
(***************************************************************************)
\* C15: after every successful purchase-order create or update, the stored
\* header satisfies total_amount = subtotal + tax_amount, with subtotal the
\* sum of the submitted lines' line_amount and tax_amount the sum of their
\* tax_amount, each rounded to 2 decimals, for every line set including lines
\* carrying a gst_amount and line sets whose sums are zero.
C15_HeaderTotals ==
  po_request.http \in {200, 201} =>
    /\ po_header[1].subtotal = Subtotal(po_request.lines)
    /\ po_header[1].tax_amount = TaxAmount(po_request.lines)
    /\ po_header[1].total_amount = po_header[1].subtotal + po_header[1].tax_amount

(***************************************************************************)
(* Inventory items (Part VI)                                               *)
(***************************************************************************)
\* the detail rows of an item with is_active = 1 and effective_end_date NULL
CurrentVersions(id) ==
  {k \in DOMAIN inventory_item_details :
     /\ inventory_item_details[k].inventory_item_id = id
     /\ inventory_item_details[k].is_active = 1
     /\ inventory_item_details[k].effective_end_date = "NULL"}

\* C16: after any sequence and any interleaving of inventory-item create and
\* update operations, every inventory item has exactly one detail row with
\* is_active = 1 and effective_end_date = NULL.
C16_OneActiveDetail ==
  \A id \in 1..inventory_items : Cardinality(CurrentVersions(id)) = 1

\* an item whose first version has been ended by an update, with one update
\* of it about to write and another waiting for the row lock
C16_Witness ==
  \E id \in 1..inventory_items, p \in Procs, q \in Procs :
     /\ \E k \in DOMAIN inventory_item_details :
          /\ inventory_item_details[k].inventory_item_id = id
          /\ inventory_item_details[k].is_active = 0
     /\ itemPc[p] = "write" /\ itemReq[p].id = id
     /\ itemPc[q] = "update" /\ itemReq[q].id = id

(***************************************************************************)
(* Connection pool (Part VII)                                              *)
(***************************************************************************)
\* C21: every request handler that acquires a pooled connection releases it
\* on every exit path, so that whenever no request is in flight the number of
\* checked-out connections is zero.
C21_ConnectionsReleased ==
  (\A p \in Procs : poolHandler[p] = "idle") => pool_checkedOut = 0

(***************************************************************************)
(* Failure of a side effect of goods-receipt creation (Part III)           *)
(***************************************************************************)
\* the create handler answers 201 after its inventory reconciliation failed
CreateSucceedsAfterFailure ==
  /\ grn.route = "POST /receipts"
  /\ grn.step = "respond"
  /\ grn.inventoryFailed
  /\ grn'.route = "idle"

\* C22: when the audit entry or the inventory reconciliation fails during
\* goods-receipt creation, the failure is caught and the handler still reports
\* success, and the receipt header, its lines and the purchase-order updates
\* are persisted: the transaction that wrote them is committed.
C22_ReceiptPersistedDespiteFailure == [][CreateSucceedsAfterFailure => ~openTx']_vars

(***************************************************************************)
(* Deletion, edit of a PAID document and the list fetch (Part II)          *)
(***************************************************************************)
\* a request handled in one step is answered for document id on route
Answers(route, id) ==
  /\ Quiescent
  /\ Quiescent'
  /\ answered' = [route |-> route, id |-> id]

\* C23: deleting a payment that has at least one ACTIVE application is
\* rejected and leaves the payment (and its applications) unchanged; deleting
\* a payment with no ACTIVE application succeeds and sets its status to DRAFT.
C23_DeleteOnlyWithoutApplications ==
  [][\A id \in 1..MaxDocs :
       (id <= Len(ap_payments) /\ Answers("DELETE /api/ap/payments/:id", id)) =>
         IF \E k \in 1..Len(ap_payment_applications) :
              /\ ap_payment_applications[k].doc_id = id
              /\ ap_payment_applications[k].status = "ACTIVE"
         THEN resp' = 400 /\ UNCHANGED apTables
         ELSE resp' = 200 /\ ap_payments'[id].status = "DRAFT"]_vars

\* a delete has just been refused for a payment with an ACTIVE application
C23_Witness ==
  /\ answered.route = "DELETE /api/ap/payments/:id"
  /\ resp = 400
  /\ answered.id <= Len(ap_payments)
  /\ ApplicationsOfDoc(ap_payment_applications, answered.id) # <<>>

\* a PUT of document id is answered, or its promotion begins
PutOf(id) ==
  /\ Quiescent
  /\ \/ Quiescent' /\ answered'.route \in UpdateRoutes /\ answered'.id = id
     \/ req'.route \in UpdateRoutes /\ req'.id = id

\* C24: an edit (PUT) of a payment or receipt whose current status is PAID is
\* refused and leaves the header, the applications and every invoice
\* unchanged.
C24_PaidDocumentNotEdited ==
  [][\A id \in 1..MaxDocs :
       (id <= Len(CurrentDocs) /\ CurrentDocs[id].status = "PAID" /\ PutOf(id)) =>
         resp' = 400 /\ UNCHANGED <<apTables, arTables>>]_vars

\* a PUT has just been refused for a PAID document that has an application
C24_Witness ==
  /\ answered.route \in UpdateRoutes
  /\ resp = 400
  /\ answered.id <= Len(CurrentDocs)
  /\ CurrentDocs[answered.id].status = "PAID"
  /\ ApplicationsOfDoc(CurrentApplications, answered.id) # <<>>

\* the stored amount_applied of every payment or receipt is the sum of its
\* ACTIVE applications, within the tolerance
Reconciled ==
  \A id \in 1..Len(CurrentDocs) :
    ~NeedsUpdate(CalculatedApplied(CurrentApplications, id), CurrentDocs[id].amount_applied)

\* a list fetch is answered
ListFetched ==
  /\ Quiescent
  /\ Quiescent'
  /\ answered'.route \in {"GET /api/ap/payments", "GET /api/receipts"}

\* C25: after a payment or receipt list is fetched, the stored amount_applied
\* of every payment or receipt equals the sum of applied_amount of its ACTIVE
\* applications (within 0.01); a second fetch with no write in between
\* updates nothing.
C25_ListReconciles ==
  [][ListFetched =>
       /\ Reconciled'
       /\ (answered.route = answered'.route => UNCHANGED <<apTables, arTables>>)]_vars

(***************************************************************************)
(* Status values and approval stamps (Part VIII)                           *)
(***************************************************************************)
StatusRoutes ==
  {"PATCH /purchase-orders/:id/status", "PUT /purchase-orders/:id",
   "PATCH /invoices/:id/status", "PATCH /api/ap/payments/:id/status"}

\* C26: every status-changing operation (purchase-order status PATCH,
\* purchase-order PUT, AR-invoice status PATCH, payment status PATCH) stores a
\* status only if it belongs to the enumerated set of the entity: a request
\* with another value is rejected and the stored status is unchanged, a
\* request with an allowed value sets the stored status to it.
C26_StatusFromEnumeratedSet ==
  [][(statusReq'.route \in StatusRoutes /\ statusReq'.status # "") =>
       IF Normalized(statusReq'.status) \in ValidStatuses(document.entity)
       THEN document'.status = Normalized(statusReq'.status)
       ELSE statusReq'.http >= 400 /\ document'.status = document.status]_vars

\* C27: after any sequence of purchase-order and agreement updates,
\* approved_by and approved_at are set exactly when approval_status is
\* APPROVED.
C27_ApprovalStampedIffApproved ==
  document.entity \in {"PURCHASE_ORDER", "AGREEMENT"} =>
    /\ (document.approval_status = "APPROVED") <=> (document.approved_by # 0)
    /\ (document.approval_status = "APPROVED") <=> (document.approved_at # Null)

\* str is the decimal form of n, with zeros in front up to width characters
ZeroPadded(str, n, width) ==
  LET digits == DecimalString(n)
      zeros == Len(str) - Len(digits)
  IN /\ Len(str) = (IF Len(digits) > width THEN Len(digits) ELSE width)
     /\ \A i \in 1..Len(str) : str[i] = (IF i <= zeros THEN "0" ELSE digits[i - zeros])

\* number is the prefix, the zero-padded next_number and the suffix of config
GeneratedFrom(number, config) ==
  /\ Len(number) >= Len(config.prefix) + Len(config.suffix)
  /\ SubSeq(number, 1, Len(config.prefix)) = config.prefix
  /\ SubSeq(number, Len(number) - Len(config.suffix) + 1, Len(number)) = config.suffix
  /\ ZeroPadded(SubSeq(number, Len(config.prefix) + 1, Len(number) - Len(config.suffix)),
                config.next_number, Len(config.number_format))

\* the step in which the handler run as p obtains a generated number
GenerationReads(p) ==
  /\ dn[p].pc \in {"gen_select", "po_number"}
  /\ dn'[p].generated

\* the step in which the handler run as p counts its generated number
GenerationCounts(p) ==
  /\ dn[p].generated
  /\ dn[p].pc \in {"gen_update", "po_seq_update"}
  /\ dn'[p].pc # dn[p].pc

\* C28: a generated number is the prefix, next_number left-padded with zeros
\* to the configured width and the suffix of the active config of the type,
\* and a generation increases next_number of that type by exactly 1 and of
\* no other type
C28_GeneratedNumber ==
  [][\A p \in Procs :
       /\ GenerationReads(p) =>
            /\ po_document_numbers[dn[p].type].is_active
            /\ GeneratedFrom(dn'[p].number, po_document_numbers[dn[p].type])
       /\ GenerationCounts(p) =>
            \A t \in DocTypes :
              LatestNextNumber(t)' = LatestNextNumber(t) + (IF t = dn[p].type THEN 1 ELSE 0)]_vars

\* a purchase order with the generated number P09 is committed and the counter
\* stands at 10
C28_Witness ==
  /\ \E r \in documents : /\ r.type = "PURCHASE_ORDER" /\ r.tx = 0 /\ r.given = <<>>
                           /\ r.number = <<"P", "0", "9">>
  /\ po_document_numbers["PURCHASE_ORDER"].next_number = 10

\* the body carries a po_number that is not blank
NonBlank(po_number) == \E i \in 1..Len(po_number) : po_number[i] # " "

\* number is given without the blanks around it
WithoutSurroundingBlanks(number, given) ==
  /\ number # <<>>
  /\ number[1] # " "
  /\ number[Len(number)] # " "
  /\ \E a \in 0..Len(given) :
       /\ a + Len(number) <= Len(given)
       /\ SubSeq(given, a + 1, a + Len(number)) = number
       /\ \A i \in 1..Len(given) : (i <= a \/ i > a + Len(number)) => given[i] = " "

\* a step of the POST /purchase-orders handler run as p
PO_CreateStep(p) ==
  /\ dn[p].route = "POST /purchase-orders"
  /\ dn'[p] # dn[p]

\* next_number of PURCHASE_ORDER, committed or not, changes in the step
PO_CounterChanges ==
  \/ po_document_numbers'["PURCHASE_ORDER"] # po_document_numbers["PURCHASE_ORDER"]
  \/ docTx'["PURCHASE_ORDER"] # docTx["PURCHASE_ORDER"]

\* C29 as stated: a purchase order created with a supplied, non-blank
\* po_number stores that number as given and leaves next_number of
\* PURCHASE_ORDER unchanged; next_number advances only for a generated number
C29_SuppliedNumberAsGiven ==
  [][\A p \in Procs : PO_CreateStep(p) =>
       /\ NonBlank(dn[p].po_number) =>
            /\ ~PO_CounterChanges
            /\ \A r \in documents' \ documents : r.number = dn[p].po_number
       /\ PO_CounterChanges => ~NonBlank(dn[p].po_number)]_vars

\* C29: a purchase order created with a supplied, non-blank po_number stores
\* that number without the blanks around it and leaves next_number of
\* PURCHASE_ORDER unchanged; next_number advances only for a generated number
C29_SuppliedNumberTrimmed ==
  [][\A p \in Procs : PO_CreateStep(p) =>
       /\ NonBlank(dn[p].po_number) =>
            /\ ~PO_CounterChanges
            /\ \A r \in documents' \ documents : WithoutSurroundingBlanks(r.number, dn[p].po_number)
       /\ PO_CounterChanges => ~NonBlank(dn[p].po_number)]_vars

\* the only request so far supplied " P09 ": the purchase order is stored as
\* P09 and the counter still stands where it started
C29_Witness ==
  /\ dnRequests = 1
  /\ \E r \in documents :
       /\ r.tx = 0
       /\ r.given = <<" ", "P", "0", "9", " ">>
       /\ r.number = <<"P", "0", "9">>
  /\ LatestNextNumber("PURCHASE_ORDER") \in StartNumbers

\* C30: no two committed documents of one type carry the same number, and a
\* create that fails on a number a committed document already carries leaves
\* no write behind
C30_NumbersUnique ==
  /\ \A r1, r2 \in documents :
       (r1.tx = 0 /\ r2.tx = 0 /\ r1.type = r2.type /\ r1.number = r2.number) => r1 = r2
  /\ \A p \in Procs : dnResult[p].numberExisted => ~dnResult[p].wrote

\* C31: an allocation for a name that is not registered fails with the
\* sequence-not-found failure, returns no value and changes no counter
C31_UnregisteredSequenceNotFound ==
  [][(allocation'.path # "" /\ sequence_rows[allocation'.name] = <<>>) =>
       /\ allocation'.outcome = "SequenceNotFound"
       /\ sequence_rows' = sequence_rows]_vars

\* the numbers in use before the step: po_headers and the committed tracking rows
NumbersInUse == UsedNumbers(po_header_numbers) \cup UsedNumbers(CommittedTracking)

\* the request run as p answers with a PO number in this step
GeneratePOSucceeds(p) == gen[p].pc = "commit" /\ gen'[p].pc = "idle"

ChainRank(status) ==
  CASE status = "DRAFT" -> 1
    [] status = "APPROVED" -> 2
    [] status = "RELEASED" -> 3
    [] status = "RECEIVED" -> 4
    [] status = "CLOSED" -> 5
    [] OTHER -> 0

\* C33: a purchase order's status only advances along DRAFT, APPROVED,
\* RELEASED, RECEIVED, CLOSED or moves to CANCELLED from a non-terminal
\* status: no operation (status PATCH, PUT, receipt rollup, delete) moves a
\* CLOSED or CANCELLED purchase order to another status or moves a status
\* backwards along the chain.
C33_StatusOnlyAdvances ==
  [][(document.entity = "PURCHASE_ORDER" /\ document'.status # document.status) =>
       /\ document.status \notin {"CLOSED", "CANCELLED"}
       /\ \/ document'.status = "CANCELLED"
          \/ ChainRank(document'.status) > ChainRank(document.status)]_vars

\* SUM(pl.quantity) of the rollup's aggregate query
OrderedQuantity == RollupStats(rollup.lines, rollup.rows).total_quantity

\* C34: the receipt rollup never overwrites a CANCELLED purchase order: a
\* rollup run after a goods-receipt create or update on a purchase order whose
\* status is CANCELLED leaves it CANCELLED, and a rollup on a purchase order
\* whose ordered quantity is <= 0 changes nothing.
C34_RollupKeepsCancelled ==
  rollup.before # "" =>
    /\ rollup.before = "CANCELLED" => rollup.status = "CANCELLED"
    /\ OrderedQuantity <= 0 => rollup.status = rollup.before

\* a rollup found a CANCELLED order with every ordered unit accepted
C34_Witness ==
  /\ rollup.before = "CANCELLED"
  /\ rollup.status = "CANCELLED"
  /\ OrderedQuantity > 0
  /\ RollupNewStatus(RollupStats(rollup.lines, rollup.rows)) = "CLOSED"

\* the CREATE entries of the audit log for the document of an answer
CreateEntries(answer) ==
  SelectSeq(po_audit_log, LAMBDA e : /\ e.action = "CREATE"
                                     /\ e.document_type = DocumentTypeOf(answer.route)
                                     /\ e.document_id = answer.document_id)

\* C35: every successful requisition, agreement and purchase-order creation
\* appends exactly one audit entry for the created document, written inside
\* the same operation before it commits.
C35_CreationAudited ==
  \A p \in Procs :
    (crAnswer[p].http = 201 /\ crAnswer[p].route \in
       {"POST /requisitions", "POST /agreements", "POST /purchase-orders"}) =>
      Len(CreateEntries(crAnswer[p])) = 1

\* the lines of a receipt applied one after another, each to the detail row
\* the line before it left
RECURSIVE EachLineInTurn(_, _, _)
EachLineInTurn(detail, rows, isReversal) ==
  IF rows = <<>> THEN detail
  ELSE EachLineInTurn(
         InventoryAfterGRNLine(detail, rows[1].quantity_accepted,
                               po_lines[rows[1].line_id].packet_quantity, isReversal),
         Tail(rows), isReversal)

\* C36: the batch inventory reconciliation of a goods receipt is equivalent to
\* applying each receipt line's delta one after another: when two lines of
\* the same receipt reference the same item, the item's stock changes by both
\* lines' accepted quantities.
C36_BatchAsEachLineInTurn ==
  batch.after = EachLineInTurn(batch.before, batch.rows, batch.isReversal)

\* a handler that ran from start to end in one step and left every receipt
\* as it was, one of them CANCELLED: DELETE /receipts/:id of a receipt that is
\* CANCELLED already (a request answered 404 or 500 before its first write
\* is such a step too and changes nothing)
CancelsCancelledReceipt ==
  /\ grn.route = "idle"
  /\ grn'.route = "idle"
  /\ po_receipts' = po_receipts
  /\ \E id \in DOMAIN po_receipts : po_receipts[id].status = "CANCELLED"

\* C37: inventory is reversed at most once per goods receipt: DELETE of a
\* goods receipt whose status is CANCELLED already leaves the item's
\* box_quantity unchanged.
C37_ReversedAtMostOnce ==
  [][CancelsCancelledReceipt => inventory'.box_quantity = inventory.box_quantity]_vars

\* the receipts that are not CANCELLED
ActiveReceipts(receipts) == {id \in DOMAIN receipts : receipts[id].status # "CANCELLED"}

\* the sum of total_amount over the receipts in ids
RECURSIVE AmountOf(_, _)
AmountOf(receipts, ids) ==
  IF ids = {} THEN 0
  ELSE LET id == CHOOSE i \in ids : TRUE
       IN  receipts[id].total_amount + AmountOf(receipts, ids \ {id})

\* C38: after a goods receipt is cancelled, the purchase order's
\* amount_received and its rollup status reflect only non-cancelled receipts:
\* amount_received equals the sum of total_amount of the non-cancelled
\* receipts, and a rollup does not count the lines of cancelled receipts as
\* accepted or received.
C38_OnlyActiveReceiptsCounted ==
  [][/\ rcv_header'.amount_received = AmountOf(rcv_receipts', ActiveReceipts(rcv_receipts'))
     /\ rcv_last' \in {"POST", "PUT"} =>
          rcv_header'.status =
            updatePOStatusFromReceipts(rcv_header.status, <<[quantity |-> OrderedQty]>>,
                                       RecvRows(rcv_receipts', ActiveReceipts(rcv_receipts')))]_vars

\* a step that turns the DRAFT payment id into a PAID payment
BecomesPaid(id) ==
  /\ ap_payments[id].status = "DRAFT"
  /\ id \in DOMAIN ap_payments'
  /\ ap_payments'[id].status = "PAID"

\* a step that inserts an application row and changes an invoice's amount_paid
AppliesToInvoice ==
  /\ Len(ap_payment_applications') = Len(ap_payment_applications) + 1
  /\ \E i \in InvoiceIds : ap_invoices'[i].amount_paid # ap_invoices[i].amount_paid

\* C39: whenever a payment has status PAID, every ACTIVE application it holds
\* has been added to its invoice's amount_paid: no operation (status PATCH,
\* PUT, delete) turns a DRAFT payment into a PAID payment that still holds
\* the rows it held as a DRAFT (a promotion removes them and adds the rows
\* of its list to the balances, C9), and no operation on a DRAFT payment
\* (POST /:id/applications included) changes an invoice balance.
C39_PaidMeansApplied ==
  [][/\ \A id \in DOMAIN ap_payments :
          BecomesPaid(id) => ApplicationsOfDoc(ap_payment_applications', id) = <<>>
     /\ AppliesToInvoice =>
          ap_payments'[ap_payment_applications'[Len(ap_payment_applications')].doc_id].status
            = "PAID"]_vars

\* the handler run as p runs its balance update in this step
UpdatesBalance(p) == race[p].pc = "update" /\ race'[p].pc = "idle"

\* C40: under any interleaving of concurrent application requests against the
\* same invoice (POST /:id/applications, POST /:receiptId/apply, a create of
\* a PAID payment) the invoice's amount_paid never exceeds its total_amount
\* by more than 0.01: the balance update of a request finds the amount_paid
\* its amount-due check read.
C40_NoOverpaymentUnderInterleaving ==
  [][/\ \A l \in RaceLedgers :
          race_invoices'[l].amount_paid <= race_invoices'[l].total_amount + Tolerance
     /\ \A p \in Procs :
          UpdatesBalance(p) =>
            race_invoices[race[p].ledger].amount_paid = race[p].currentAmountPaid]_vars

=============================================================================
